---- MODULE Spec2Model ----
(***************************************************************************)
(* Terminal Mandelbrot renderer: the escape-time kernel, the glyph mapper, *)
(* the sequential and the multi-threaded scanline renderers, and the       *)
(* interactive navigation loops of the repository's program variants.      *)
(*                                                                         *)
(* Numbers.  An f64 is modelled as a fixed-point integer counting units    *)
(* of 1/FX (3.0 is 3000); every product and quotient is rounded to the     *)
(* nearest unit, as an f64 operation rounds to the nearest representable   *)
(* value.  NaN stands for the non-finite f64 values: arithmetic            *)
(* propagates it and every comparison with it is false.                    *)
(* Text.  A String is a sequence of one-character strings.                 *)
(***************************************************************************)
EXTENDS Integers, Sequences, FiniteSets, TLC

VARIABLES
    prog,      \* which program variant is running
    cfg,       \* the Config in use (render: its argument, main: `cfg`)
    ap,        \* result of available_parallelism(): n >= 1, or 0 for Err
    threads,   \* render: number of loop iterations of the spawn loop
    rpc,       \* render: position of the calling thread
    spawn_t,   \* render: next index of the spawn loop
    wst,       \* render: state of each worker thread
    wy,        \* render: row index each worker handles next
    chan,      \* render: mpsc channel content, (row_index, row) pairs in send order
    lines,     \* render: the row buffer indexed by row index
    poisoned,  \* render: the Mutex around the row buffer is poisoned
    joined,    \* render: number of handles join() has returned for
    arrived,   \* render: row indices in the order the collector received them
    out,       \* render: the returned String
    npc,         \* main: position in the interactive program
    initial_cfg, \* main: the Config parse_args returned at start
    term,        \* the terminal's input mode: "cooked" or "raw"
    tty,         \* the terminal's ICANON and ECHO flags: at program start, and now
    enters,      \* number of times the enter-raw-mode command was issued
    restores,    \* number of times the restore command was issued
    enabled,     \* main: entering raw mode reported success
    stdin,       \* the input stream: "open", "eof" (ended) or "err" (reads fail)
    nreads,      \* number of loop iterations that received key bytes
    has_read,    \* main has called a read on stdin
    last_read,   \* bytes consumed by the latest run of the input handler
    last_cmds,   \* commands the latest run of the input handler decoded
    shown,       \* the Config the frame on the screen was rendered from
    buffer,      \* op4_sr: the 3-byte read buffer declared before the loop
    kpc,         \* kernel call: position ("none" when no call is observed)
    kin,         \* kernel call: the arguments of mandel_escape
    kout,        \* kernel call: the escape count and the glyph shade returns
    kz,          \* kernel call: the locals zx, zy, i of mandel_escape while it loops
    call         \* one call of shade or parse_args: arguments, position, result

rvars == <<ap, threads, rpc, spawn_t, wst, wy, chan, lines, poisoned, joined, arrived,
          out>>
nvars == <<npc, initial_cfg, term, tty, enters, restores, enabled, stdin, nreads, has_read,
          last_read, last_cmds, shown, buffer>>
kvars == <<kpc, kin, kout, kz, call>>
vars == <<prog, cfg, rvars, nvars, kvars>>

(***************************************************************************)
(* Bounds of the model.                                                    *)
(***************************************************************************)
MaxW == 3      \* largest width given on the command line
MaxH == 4      \* largest height given on the command line
MaxPar == 3    \* largest value available_parallelism() reports
MaxReads == 3  \* loop iterations in which the user still types keys
MaxCoord == 6  \* kernel points have coordinates k/2 with |k| <= MaxCoord
MaxIter == 3   \* largest iteration bound of an observed kernel call
MaxShadeIter == 20  \* largest iteration bound of an observed shade call
MaxArgs == 2   \* longest argument list of an observed parse_args call

(***************************************************************************)
(* f64 arithmetic.                                                         *)
(***************************************************************************)
FX == 1000
NaN == -1000000000

Abs(n) == IF n < 0 THEN -n ELSE n
Min(a, b) == IF a <= b THEN a ELSE b
Max(a, b) == IF a >= b THEN a ELSE b

\* n/d rounded to the nearest integer, ties away from zero (f64::round)
RoundDiv(n, d) ==
    LET q == (2 * Abs(n) + Abs(d)) \div (2 * Abs(d))
    IN  IF (n < 0) # (d < 0) THEN -q ELSE q

I2F(n) == n * FX
FAdd(a, b) == IF a = NaN \/ b = NaN THEN NaN ELSE a + b
FSub(a, b) == IF a = NaN \/ b = NaN THEN NaN ELSE a - b
FMul(a, b) == IF a = NaN \/ b = NaN THEN NaN ELSE RoundDiv(a * b, FX)
FDiv(a, b) == IF a = NaN \/ b = NaN \/ b = 0 THEN NaN ELSE RoundDiv(a * FX, b)
FLe(a, b) == a # NaN /\ b # NaN /\ a <= b

(***************************************************************************)
(* Config, escape-time kernel, glyph mapper, one scanline.                 *)
(***************************************************************************)
PALETTE == <<" ", ".", ":", "-", "=", "+", "*", "#", "%", "@">>
NL == "\n"

ConfigDefault ==
    [width |-> 80, height |-> 30, center_x |-> -500, center_y |-> 0,
     scale |-> 3000, iters |-> 80]

\* One command-line argument "k=v": the key, and the value text as the number
\* it spells in units of 1/FX (num) or as text that spells no number.
Arg(k, v) == [k |-> k, num |-> TRUE, v |-> v]
BadArg(k) == [k |-> k, num |-> FALSE, v |-> 0]

\* v.parse::<usize>() and v.parse::<f64>(), each followed by unwrap_or(old)
ParseUsizeOr(a, old) ==
    IF a.num /\ a.v >= 0 /\ a.v % FX = 0 THEN a.v \div FX ELSE old
ParseF64Or(a, old) == IF a.num THEN a.v ELSE old

parse_arg(c, a) ==
    CASE a.k \in {"w", "width"}  -> [c EXCEPT !.width = ParseUsizeOr(a, c.width)]
      [] a.k \in {"h", "height"} -> [c EXCEPT !.height = ParseUsizeOr(a, c.height)]
      [] a.k = "cx"              -> [c EXCEPT !.center_x = ParseF64Or(a, c.center_x)]
      [] a.k = "cy"              -> [c EXCEPT !.center_y = ParseF64Or(a, c.center_y)]
      [] a.k \in {"scale", "s"}  -> [c EXCEPT !.scale = ParseF64Or(a, c.scale)]
      [] a.k \in {"iters", "i"}  -> [c EXCEPT !.iters = ParseUsizeOr(a, c.iters)]
      [] OTHER                   -> c

RECURSIVE parse_from(_, _, _)
parse_from(c, args, i) ==
    IF i > Len(args) THEN c ELSE parse_from(parse_arg(c, args[i]), args, i + 1)

parse_args(args) == parse_from(ConfigDefault, args, 1)

\* (mutation) the loop gives up one iteration early
RECURSIVE escape_loop_short(_, _, _, _, _, _)
escape_loop_short(zx, zy, cx, cy, max_iter, i) ==
    IF FLe(FAdd(FMul(zx, zx), FMul(zy, zy)), 4 * FX) /\ i + 1 < max_iter
    THEN escape_loop_short(FAdd(FSub(FMul(zx, zx), FMul(zy, zy)), cx),
                           FAdd(FMul(FMul(2 * FX, zx), zy), cy),
                           cx, cy, max_iter, i + 1)
    ELSE i

RECURSIVE escape_loop(_, _, _, _, _, _)
escape_loop(zx, zy, cx, cy, max_iter, i) ==
    IF FLe(FAdd(FMul(zx, zx), FMul(zy, zy)), 4 * FX) /\ i < max_iter
    THEN escape_loop(FAdd(FSub(FMul(zx, zx), FMul(zy, zy)), cx),
                     FAdd(FMul(FMul(2 * FX, zx), zy), cy),
                     cx, cy, max_iter, i + 1)
    ELSE i

mandel_escape(zx, zy, cx, cy, max_iter) == escape_loop(zx, zy, cx, cy, max_iter, 0)

\* (mutation) the index counts down from the last entry
ShadeIdxReversed(it, max_iter, n) == (n - 1) - RoundDiv(it * (n - 1), max_iter)

\* (t * (len - 1.0)).round() with t = it / max_iter, for it < max_iter: the
\* f64 result is the exact quotient rounded, ties away from zero
ShadeIdx(it, max_iter, n) == RoundDiv(it * (n - 1), max_iter)

shade(it, max_iter) ==
    IF it >= max_iter THEN "@"
    ELSE PALETTE[ShadeIdx(it, max_iter, Len(PALETTE)) + 1]

\* u for column x, v for row y
SampleU(c, x) ==
    FAdd(FMul(FSub(FDiv(I2F(x), I2F(c.width) - FX), FX \div 2), c.scale), c.center_x)
SampleV(c, y) ==
    LET aspect == FDiv(I2F(c.width), I2F(c.height))
    IN  FAdd(FDiv(FMul(FSub(FDiv(I2F(y), I2F(c.height) - FX), FX \div 2), c.scale),
                  aspect),
             c.center_y)

\* the characters of row y, without the newline
RowText(c, y) ==
    [x \in 1..c.width |->
        shade(mandel_escape(0, 0, SampleU(c, x - 1), SampleV(c, y), c.iters), c.iters)]

\* the sequential render: rows in increasing y, each followed by a newline
RECURSIVE render_rows(_, _)
render_rows(c, y) ==
    IF y >= c.height THEN <<>>
    ELSE RowText(c, y) \o <<NL>> \o render_rows(c, y + 1)

render(c) == render_rows(c, 0)

(***************************************************************************)
(* The multi-threaded renders.                                             *)
(*   g5_par_ff  gpt-5 parallel_rendering_full_file     (channel, strided)  *)
(*   g5_par_ms  gpt-5 parallel_rendering_morph_single  (channel, strided)  *)
(*   o3_par_mm  gpt-o3 parallel_rendering_morph_multi  (channel, chunked)  *)
(*   g5_par_sr  gpt-5 parallel_rendering_search_replace (mutex, chunked)   *)
(*   op41_par_sr claude-opus-4.1 parallel_rendering_search_replace         *)
(*              (mutex taken once per worker, chunked)                     *)
(*   o3_par_ms  gpt-o3 parallel_rendering_morph_single                     *)
(*              (rows returned through join, chunked)                      *)
(***************************************************************************)
ChannelProgs == {"g5_par_ff", "g5_par_ms", "o3_par_mm"}
MutexProgs == {"g5_par_sr", "op41_par_sr"}
JoinReturnProgs == {"o3_par_ms"}
RenderProgs == ChannelProgs \cup MutexProgs \cup JoinReturnProgs

\* the spawn loop breaks at the first chunk that starts past the last row
BreakProgs == {"g5_par_sr", "op41_par_sr", "o3_par_ms"}

\* a build in which every render discards the result of join()
UnwrapJoinNowhere == {}

\* handle.join().unwrap(): a worker's panic is raised again in render
UnwrapJoinProgs == {"op41_par_sr", "o3_par_ms"}

\* available_parallelism().map(|n| n.get()).unwrap_or(fallback)
ParallelismOr(a, fallback) == IF a = 0 THEN fallback ELSE a

\* the constant used when available_parallelism() fails
ParFallback(p) == IF p \in {"g5_par_ff", "g5_par_sr"} THEN 1 ELSE 4

\* (mutation) the thread count is not clamped to the number of rows
NumThreadsUnclamped(p, c, a) == ParallelismOr(a, ParFallback(p))

\* number of iterations of the spawn loop
NumThreads(p, c, a) ==
    CASE p = "g5_par_ff" -> Min(ParallelismOr(a, 1), Max(c.height, 1))
      [] p = "g5_par_ms" -> Min(ParallelismOr(a, 4), Max(c.height, 1))
      [] p = "o3_par_mm" -> ParallelismOr(a, 4)
      [] p = "g5_par_sr" -> ParallelismOr(a, 1)
      [] p = "op41_par_sr" -> ParallelismOr(a, 4)
      [] p = "o3_par_ms" -> ParallelismOr(a, 4)

\* (mutation) the chunk size rounded down
RowsPerChunkFloor(c, n) == c.height \div n

\* rows_per_thread / rows_per_chunk of the chunked variants
RowsPerChunk(c, n) == (c.height + n - 1) \div n

\* (mutation) worker indices taken as 1-based
FirstRowOneBased(p, c, n, t) ==
    IF p \in {"g5_par_ff", "g5_par_ms"} THEN t + 1 ELSE (t + 1) * RowsPerChunk(c, n)

\* (mutation) a chunk runs one row into the next chunk
EndRowInclusive(p, c, n, t) ==
    IF p \in {"g5_par_ff", "g5_par_ms"} THEN c.height
    ELSE Min((t + 1) * RowsPerChunk(c, n) + 1, c.height)

\* first row, one-past-last row and step of worker t
FirstRow(p, c, n, t) ==
    IF p \in {"g5_par_ff", "g5_par_ms"} THEN t ELSE t * RowsPerChunk(c, n)

EndRow(p, c, n, t) ==
    IF p \in {"g5_par_ff", "g5_par_ms"} THEN c.height
    ELSE Min((t + 1) * RowsPerChunk(c, n), c.height)

RowStep(p, n) == IF p \in {"g5_par_ff", "g5_par_ms"} THEN n ELSE 1

\* the rows worker t of n handles
RowsOf(p, c, n, t) ==
    {y \in 0..(c.height - 1) :
        /\ FirstRow(p, c, n, t) <= y
        /\ y < EndRow(p, c, n, t)
        /\ (y - FirstRow(p, c, n, t)) % RowStep(p, n) = 0}

\* the String a worker builds for row y
WorkerLine(p, c, y) ==
    IF p \in {"g5_par_ms", "op41_par_sr"} THEN RowText(c, y) ELSE RowText(c, y) \o <<NL>>

\* the row buffer before any row is stored: vec![None; h] or vec![String::new(); h]
None == <<"None">>
EmptyLines(p, c) ==
    [y \in 0..(c.height - 1) |-> IF p = "g5_par_ff" THEN None ELSE <<>>]

\* (mutation) the pair is stored at the first free slot, in arrival order
StoreLineInArrivalOrder(buf, y, line) ==
    LET free == {i \in DOMAIN buf : buf[i] \in {None, <<>>}}
    IN  IF free = {} THEN buf
        ELSE [buf EXCEPT ![CHOOSE i \in free : \A j \in free : i <= j] = line]

\* lines[y] = line
StoreLine(buf, y, line) == [buf EXCEPT ![y] = line]

\* the final concatenation of the row buffer
RECURSIVE concat_from(_, _, _, _)
concat_from(p, c, buf, y) ==
    IF y >= c.height THEN <<>>
    ELSE (CASE p = "g5_par_ff" -> IF buf[y] # None THEN buf[y] ELSE <<>>
            [] p = "g5_par_ms" -> buf[y] \o <<NL>>
            [] p = "op41_par_sr" -> buf[y] \o (IF y + 1 < c.height THEN <<NL>> ELSE <<>>)
            [] OTHER           -> buf[y])
         \o concat_from(p, c, buf, y + 1)

\* op41_par_sr: rows.join("\n") + "\n"
Concat(p, c, buf) ==
    concat_from(p, c, buf, 0) \o (IF p = "op41_par_sr" THEN <<NL>> ELSE <<>>)

\* rows[y] = row for every (y, row) of the part a worker returned
RECURSIVE StorePart(_, _, _, _, _)
StorePart(buf, p, c, y, last) ==
    IF y >= last THEN buf
    ELSE StorePart(StoreLine(buf, y, WorkerLine(p, c, y)), p, c, y + 1, last)

\* the row indices of a part, in the order they are stored
RowSeq(first, last) == [i \in 1..Max(last - first, 0) |-> first + i - 1]

Workers == 0..(threads - 1)

\* (mutation) a thread counts as over whatever it is doing
FinishedAlways(t) == wst[t] \in {"unspawned", "running", "locked", "exited", "panicked", "skipped"}

Finished(t) == wst[t] \in {"exited", "panicked", "skipped"}

\* one iteration of the spawn loop: spawn worker t, or skip it (chunked variants)
Spawn ==
    /\ rpc = "spawn"
    /\ spawn_t < threads
    /\ LET t == spawn_t
           first == FirstRow(prog, cfg, threads, t)
           last == EndRow(prog, cfg, threads, t)
       IN  IF prog = "o3_par_mm" /\ first >= last
           THEN \* continue
                /\ wst' = [wst EXCEPT ![t] = "skipped"]
                /\ spawn_t' = t + 1
                /\ UNCHANGED wy
           ELSE IF prog \in BreakProgs /\ first >= cfg.height
           THEN \* break
                /\ wst' = [u \in Workers |-> IF u >= t THEN "skipped" ELSE wst[u]]
                /\ spawn_t' = threads
                /\ UNCHANGED wy
           ELSE /\ wst' = [wst EXCEPT ![t] = "running"]
                /\ wy' = [wy EXCEPT ![t] = first]
                /\ spawn_t' = t + 1
    /\ UNCHANGED <<nvars, kvars, prog, cfg, ap, threads, rpc, chan, lines, poisoned, joined, arrived, out>>

\* the spawn loop is over: drop(tx) and start receiving (channel variants),
\* or start joining (mutex variants)
SpawnDone ==
    /\ rpc = "spawn"
    /\ spawn_t >= threads
    /\ rpc' = IF prog \in ChannelProgs THEN "collect" ELSE "join"
    /\ UNCHANGED <<nvars, kvars, prog, cfg, ap, threads, spawn_t, wst, wy, chan, lines, poisoned,
                   joined, arrived, out>>

\* channel variants: worker t computes its next row and sends (y, line)
WorkerSend(t) ==
    /\ prog \in ChannelProgs
    /\ wst[t] = "running"
    /\ wy[t] < EndRow(prog, cfg, threads, t)
    /\ chan' = Append(chan, <<wy[t], WorkerLine(prog, cfg, wy[t])>>)
    /\ wy' = [wy EXCEPT ![t] = wy[t] + RowStep(prog, threads)]
    /\ UNCHANGED <<nvars, kvars, prog, cfg, ap, threads, rpc, spawn_t, wst, lines, poisoned, joined, arrived, out>>

\* mutex variants: worker t computes its next row and takes the lock;
\* lock().unwrap() panics when the mutex is poisoned
WorkerLock(t) ==
    /\ prog \in MutexProgs
    /\ wst[t] = "running"
    /\ wy[t] < EndRow(prog, cfg, threads, t)
    /\ \A u \in Workers : wst[u] # "locked"
    /\ wst' = [wst EXCEPT ![t] = IF poisoned THEN "panicked" ELSE "locked"]
    /\ UNCHANGED <<nvars, kvars, prog, cfg, ap, threads, rpc, spawn_t, wy, chan, lines, poisoned,
                   joined, arrived, out>>

\* mutex variants: rows_guard[y] = row.  g5_par_sr drops the guard after each
\* row; op41_par_sr holds it until the last of its rows is stored.
WorkerStore(t) ==
    /\ prog \in MutexProgs
    /\ wst[t] = "locked"
    /\ lines' = StoreLine(lines, wy[t], WorkerLine(prog, cfg, wy[t]))
    /\ arrived' = Append(arrived, wy[t])
    /\ wy' = [wy EXCEPT ![t] = wy[t] + RowStep(prog, threads)]
    /\ wst' = [wst EXCEPT ![t] =
                 IF prog = "op41_par_sr" /\ wy'[t] < EndRow(prog, cfg, threads, t)
                 THEN "locked" ELSE "running"]
    /\ UNCHANGED <<nvars, kvars, prog, cfg, ap, threads, rpc, spawn_t, chan, poisoned, joined, out>>

\* o3_par_ms: worker t computes its next row and pushes it on its own part
WorkerCompute(t) ==
    /\ prog \in JoinReturnProgs
    /\ wst[t] = "running"
    /\ wy[t] < EndRow(prog, cfg, threads, t)
    /\ wy' = [wy EXCEPT ![t] = wy[t] + RowStep(prog, threads)]
    /\ UNCHANGED <<nvars, kvars, prog, cfg, ap, threads, rpc, spawn_t, wst, chan, lines, poisoned,
                   joined, arrived, out>>

\* worker t has handled its last row: the closure returns (its tx is dropped)
WorkerExit(t) ==
    /\ wst[t] = "running"
    /\ wy[t] >= EndRow(prog, cfg, threads, t)
    /\ wst' = [wst EXCEPT ![t] = "exited"]
    /\ UNCHANGED <<nvars, kvars, prog, cfg, ap, threads, rpc, spawn_t, wy, chan, lines, poisoned,
                   joined, arrived, out>>

\* for (y, line) in rx: one received pair is stored at its row index
Recv ==
    /\ rpc = "collect"
    /\ chan # <<>>
    /\ lines' = StoreLine(lines, Head(chan)[1], Head(chan)[2])
    /\ chan' = Tail(chan)
    /\ arrived' = Append(arrived, Head(chan)[1])
    /\ UNCHANGED <<nvars, kvars, prog, cfg, ap, threads, rpc, spawn_t, wst, wy, poisoned, joined, out>>

\* (mutation) render keeps the original sender while it receives
AllSendersDroppedButOriginal == FALSE

\* every Sender is dropped: the original by drop(tx) before the receive loop,
\* each clone when its worker is over or its loop iteration was skipped
AllSendersDropped == \A t \in Workers : Finished(t)

\* the receive loop ends: the channel is empty and every sender is dropped
RecvEnd ==
    /\ rpc = "collect"
    /\ chan = <<>>
    /\ AllSendersDropped
    /\ rpc' = "join"
    /\ UNCHANGED <<nvars, kvars, prog, cfg, ap, threads, spawn_t, wst, wy, chan, lines, poisoned,
                   joined, arrived, out>>

\* handles in spawn order
Handles == SelectSeq([i \in 1..threads |-> i - 1], LAMBDA t : wst[t] # "skipped")

\* h.join() returns once the thread is over.  let _ = h.join() discards the
\* result; join().unwrap() panics when the worker panicked; o3_par_ms stores
\* the rows of the part the worker returned.
Join ==
    /\ rpc = "join"
    /\ joined < Len(Handles)
    /\ LET t == Handles[joined + 1]
           first == FirstRow(prog, cfg, threads, t)
           last == EndRow(prog, cfg, threads, t)
       IN  /\ Finished(t)
           /\ IF prog \in UnwrapJoinProgs /\ wst[t] = "panicked"
              THEN /\ rpc' = "panicked"
                   /\ UNCHANGED <<joined, lines, arrived>>
              ELSE /\ joined' = joined + 1
                   /\ rpc' = rpc
                   /\ IF prog \in JoinReturnProgs
                      THEN /\ lines' = StorePart(lines, prog, cfg, first, last)
                           /\ arrived' = arrived \o RowSeq(first, last)
                      ELSE UNCHANGED <<lines, arrived>>
    /\ UNCHANGED <<nvars, kvars, prog, cfg, ap, threads, spawn_t, wst, wy, chan, poisoned, out>>

\* a render that reads the rows without waiting for its workers
ReturnUnjoined ==
    /\ rpc = "join"
    /\ rpc' = "done"
    /\ out' = Concat(prog, cfg, lines)
    /\ UNCHANGED <<nvars, kvars, prog, cfg, ap, threads, spawn_t, wst, wy, chan, lines, poisoned, joined, arrived>>

\* every handle is joined: the rows are concatenated and returned.  In the mutex
\* variants into_inner().unwrap() panics when the mutex is poisoned.
Return ==
    /\ rpc = "join"
    /\ joined = Len(Handles)
    /\ IF prog \in MutexProgs /\ poisoned
       THEN rpc' = "panicked" /\ UNCHANGED out
       ELSE rpc' = "done" /\ out' = Concat(prog, cfg, lines)
    /\ UNCHANGED <<nvars, kvars, prog, cfg, ap, threads, spawn_t, wst, wy, chan, lines, poisoned, joined, arrived>>

\* a worker thread panics before it has delivered all of its rows; a guard it
\* holds poisons the mutex
WorkerFault(t) ==
    /\ wst[t] \in {"running", "locked"}
    /\ wy[t] < EndRow(prog, cfg, threads, t)
    /\ poisoned' = (poisoned \/ wst[t] = "locked")
    /\ wst' = [wst EXCEPT ![t] = "panicked"]
    /\ UNCHANGED <<nvars, kvars, prog, cfg, ap, threads, rpc, spawn_t, wy, chan, lines, joined, arrived, out>>

\* no kernel call is observed on its own
KernelIdle ==
    /\ kpc = "none"
    /\ kin = <<>>
    /\ kout = <<>>
    /\ kz = <<>>
    /\ call = <<>>

\* c_lflag bits of the terminal: line-buffered input with echo, and neither
CookedFlags == [icanon |-> TRUE, echo |-> TRUE]
RawFlags == [icanon |-> FALSE, echo |-> FALSE]

\* the interactive state of a program that only renders
\* the byte 0
NUL == "NUL"

NavIdle ==
    /\ npc = "none"
    /\ initial_cfg = cfg
    /\ term = "cooked"
    /\ tty = [orig |-> CookedFlags, now |-> CookedFlags]
    /\ enters = 0
    /\ restores = 0
    /\ enabled = FALSE
    /\ stdin = "open"
    /\ nreads = 0
    /\ has_read = FALSE
    /\ last_read = <<>>
    /\ last_cmds = <<>>
    /\ shown = <<>>
    /\ buffer = <<NUL, NUL, NUL>>

\* the arguments render is called with
WidthsUsed == {1, MaxW}
RenderArgs ==
    {<<Arg("w", I2F(w)), Arg("h", I2F(h)), Arg("cy", 700), Arg("scale", 2000),
       Arg("iters", 5000)>> : w \in WidthsUsed, h \in 0..MaxH}

RenderInit ==
    /\ prog \in RenderProgs
    /\ cfg \in {parse_args(a) : a \in RenderArgs}
    /\ ap \in 0..MaxPar
    /\ threads = NumThreads(prog, cfg, ap)
    /\ rpc = "spawn"
    /\ spawn_t = 0
    /\ wst = [t \in 0..(threads - 1) |-> "unspawned"]
    /\ wy = [t \in 0..(threads - 1) |-> 0]
    /\ chan = <<>>
    /\ lines = EmptyLines(prog, cfg)
    /\ poisoned = FALSE
    /\ joined = 0
    /\ arrived = <<>>
    /\ out = <<>>
    /\ NavIdle
    /\ KernelIdle

RenderNext ==
    \/ Spawn
    \/ SpawnDone
    \/ \E t \in Workers : WorkerSend(t)
    \/ \E t \in Workers : WorkerLock(t)
    \/ \E t \in Workers : WorkerStore(t)
    \/ \E t \in Workers : WorkerCompute(t)
    \/ \E t \in Workers : WorkerExit(t)
    \/ Recv
    \/ RecvEnd
    \/ Join
    \/ Return

RenderFaultNext ==
    \/ RenderNext
    \/ \E t \in Workers : WorkerFault(t)

SpecRender == RenderInit /\ [][RenderNext]_vars

\* the channel-based renders of C30 under fair scheduling, no worker fault:
\* a thread that can take a step eventually takes one
FairChannelProgs == {"g5_par_ff", "o3_par_mm"}

\* the rows are one column wide: the width plays no part in the control flow
\* of the threads
ChannelInit == RenderInit /\ prog \in FairChannelProgs /\ cfg.width = 1

ChannelNext ==
    \/ Spawn
    \/ SpawnDone
    \/ \E t \in Workers : WorkerSend(t)
    \/ \E t \in Workers : WorkerExit(t)
    \/ Recv
    \/ RecvEnd
    \/ Join
    \/ Return

SpecChannelFair == ChannelInit /\ [][ChannelNext]_vars /\ WF_vars(ChannelNext)
SpecRenderFault == RenderInit /\ [][RenderFaultNext]_vars

\* the mutex-based renders under fair scheduling, no worker fault, rows one
\* column wide
MutexInit == RenderInit /\ prog \in MutexProgs /\ cfg.width = 1

MutexNext ==
    \/ Spawn
    \/ SpawnDone
    \/ \E t \in Workers : WorkerLock(t)
    \/ \E t \in Workers : WorkerStore(t)
    \/ \E t \in Workers : WorkerExit(t)
    \/ Join
    \/ Return

SpecMutexFair == MutexInit /\ [][MutexNext]_vars /\ WF_vars(MutexNext)

(***************************************************************************)
(* The interactive programs (interactive_zooming variants).                *)
(*   o3_ff    gpt-o3 full_file            o3_sr    gpt-o3 search_replace   *)
(*   o3_mm    gpt-o3 morph_multi          op4_sr   claude-opus-4 search_replace *)
(*   son4_ms  claude-sonnet-4 morph_single                                 *)
(*   son4_mm  claude-sonnet-4 morph_multi                                  *)
(*   op4_ms   claude-opus-4 morph_single  op4_mm   claude-opus-4 morph_multi *)
(*   op4_ff   claude-opus-4 full_file                                      *)
(*   op41_sr  claude-opus-4.1 search_replace                               *)
(*   op41_mm  claude-opus-4.1 morph_multi                                  *)
(*   g5_ms    gpt-5 morph_single          g5_mm    gpt-5 morph_multi       *)
(*   g5_sr    gpt-5 search_replace                                         *)
(*   o3_ms    gpt-o3 morph_single                                          *)
(*   son4_sr  claude-sonnet-4 search_replace, started with -i              *)
(* main is modelled as: enter raw mode; loop { draw; read a key and apply  *)
(* it }; leave.  A frame is identified by the Config it was rendered from. *)
(***************************************************************************)
NavProgs == {"o3_ff", "o3_sr", "son4_ms", "son4_mm", "op4_ms", "op4_mm", "op4_ff",
             "op41_sr", "op41_mm", "g5_ms", "g5_mm", "g5_sr", "o3_ms", "son4_sr",
             "op4_sr", "o3_mm"}

\* programs whose restore is the Drop of a guard value living in main
GuardProgs == {"o3_ff", "o3_sr", "g5_ms", "g5_mm", "g5_sr", "o3_ms"}

\* the decimal literal n/d as an f64
F(n, d) == (n * FX) \div d

\* --- the input stream ---------------------------------------------------
\* the bytes a user types: q + - r ESC [ A C and an unbound key x
KeyBytes == {"q", "+", "-", "r", "ESC", "[", "A", "C", "x"}

\* keys still to come at the start of a loop iteration
FirstKeys == IF nreads < MaxReads THEN KeyBytes ELSE {}

\* outcome of fetching one byte (read_exact on one byte, Bytes::next):
\* res is "ok" with the byte b, "eof" or "err"; st is the stream afterwards
ReadByte(st, keys) ==
    IF st = "open"
    THEN {[res |-> "ok", b |-> k, st |-> "open"] : k \in keys}
         \cup {[res |-> "eof", b |-> NUL, st |-> "eof"],
               [res |-> "err", b |-> NUL, st |-> "err"]}
    ELSE {[res |-> st, b |-> NUL, st |-> st]}

\* outcome of read_exact on a 2-byte buffer: ok only when both bytes arrived;
\* bytes are the bytes taken from the stream
ReadExact2(st, keys) ==
    UNION {IF r1.res # "ok"
           THEN {[ok |-> FALSE, bytes |-> <<>>, st |-> r1.st]}
           ELSE {[ok |-> r2.res = "ok",
                  bytes |-> IF r2.res = "ok" THEN <<r1.b, r2.b>> ELSE <<r1.b>>,
                  st |-> r2.st] : r2 \in ReadByte(r1.st, keys)}
           : r1 \in ReadByte(st, keys)}

\* outcome of one read() into a buffer of cap bytes: "ok" with the 1..cap
\* bytes that were pending, "eof" (Ok(0)) or "err"
ReadBuf(st, keys, cap) ==
    IF st = "open"
    THEN {[res |-> "ok", bytes |-> bs, st |-> "open"] :
             bs \in UNION {[1..k -> keys] : k \in 1..cap}}
         \cup {[res |-> "eof", bytes |-> <<>>, st |-> "eof"],
               [res |-> "err", bytes |-> <<>>, st |-> "err"]}
    ELSE {[res |-> st, bytes |-> <<>>, st |-> st]}

\* a zero-initialised 3-byte buffer after the bytes were read into it from
\* position from
Buf3(bytes, from) ==
    [i \in 1..3 |-> IF i >= from /\ i - from + 1 <= Len(bytes)
                    THEN bytes[i - from + 1] ELSE NUL]

\* --- commands -----------------------------------------------------------
ArrowCmd(b) ==
    CASE b = "A" -> "PanUp"
      [] b = "B" -> "PanDown"
      [] b = "C" -> "PanRight"
      [] b = "D" -> "PanLeft"
      [] OTHER   -> "Noop"

\* a zoom-in that shrinks the view by a fixed step
ZoomInByStep(p, s) == FSub(s, F(15, 10))

ZoomIn(p, s) ==
    CASE p \in {"op4_ms", "op41_sr"} -> FMul(s, F(7, 10))
      [] p = "op4_ff"                -> FDiv(s, F(15, 10))
      [] p = "op4_sr"                -> FDiv(s, F(12, 10))
      [] p = "son4_sr"               -> FMul(s, F(9, 10))
      [] OTHER                       -> FMul(s, F(8, 10))

ZoomOut(p, s) ==
    CASE p \in {"o3_ff", "g5_ms"}    -> FDiv(s, F(8, 10))
      [] p \in {"op4_ms", "op41_sr"} -> FMul(s, F(14, 10))
      [] p = "op4_ff"                -> FMul(s, F(15, 10))
      [] p = "op4_sr"                -> FMul(s, F(12, 10))
      [] p = "son4_sr"               -> FDiv(s, F(9, 10))
      [] OTHER                       -> FMul(s, F(125, 100))

PanX(p, c) == FMul(c.scale, F(1, 10))

PanY(p, c) ==
    LET aspect == FDiv(I2F(c.width), I2F(c.height))
    IN  CASE p \in {"g5_ms", "g5_mm"} -> FMul(FDiv(c.scale, aspect), F(1, 10))
          [] p = "g5_sr"             -> FDiv(FMul(F(1, 10), c.scale), aspect)
          [] p = "op41_mm"           -> FDiv(FMul(c.scale, F(1, 10)), I2F(2))
          [] OTHER                   -> FMul(c.scale, F(1, 10))

\* a Reset that assigns Config::default() in every program
ResetToDefault(p, init) == ConfigDefault

\* what the Reset key assigns to cfg
ResetTarget(p, init) == IF p = "g5_sr" THEN ConfigDefault ELSE init

\* 1e-6, the floor of scale in g5_mm: the smallest positive value of the
\* number model
SCALE_FLOOR == 1
ClampScale(p, c) ==
    IF p = "g5_mm" /\ c.scale # NaN /\ c.scale < SCALE_FLOOR
    THEN [c EXCEPT !.scale = SCALE_FLOOR] ELSE c

\* a loop whose arms for the horizontal arrows move center_y
ApplyPanCrossed(p, c, init, cmd) ==
    ClampScale(p,
      CASE cmd = "ZoomIn"   -> [c EXCEPT !.scale = ZoomIn(p, c.scale)]
        [] cmd = "ZoomOut"  -> [c EXCEPT !.scale = ZoomOut(p, c.scale)]
        [] cmd = "PanLeft"  -> [c EXCEPT !.center_y = FSub(c.center_y, PanX(p, c))]
        [] cmd = "PanRight" -> [c EXCEPT !.center_y = FAdd(c.center_y, PanX(p, c))]
        [] cmd = "PanUp"    -> [c EXCEPT !.center_y = FSub(c.center_y, PanY(p, c))]
        [] cmd = "PanDown"  -> [c EXCEPT !.center_y = FAdd(c.center_y, PanY(p, c))]
        [] cmd = "Reset"    -> ResetTarget(p, init)
        [] OTHER            -> c)

Apply(p, c, init, cmd) ==
    ClampScale(p,
      CASE cmd = "ZoomIn"   -> [c EXCEPT !.scale = ZoomIn(p, c.scale)]
        [] cmd = "ZoomOut"  -> [c EXCEPT !.scale = ZoomOut(p, c.scale)]
        [] cmd = "PanLeft"  -> [c EXCEPT !.center_x = FSub(c.center_x, PanX(p, c))]
        [] cmd = "PanRight" -> [c EXCEPT !.center_x = FAdd(c.center_x, PanX(p, c))]
        [] cmd = "PanUp"    -> [c EXCEPT !.center_y = FSub(c.center_y, PanY(p, c))]
        [] cmd = "PanDown"  -> [c EXCEPT !.center_y = FAdd(c.center_y, PanY(p, c))]
        [] cmd = "Reset"    -> ResetTarget(p, init)
        [] OTHER            -> c)

\* --- entering, drawing, leaving -----------------------------------------
\* a build in which unwinding drops no guard
RestoresOnUnwindNever(p) == FALSE

\* the restore command runs when a panic unwinds main
RestoresOnUnwind(p) ==
    /\ p \in GuardProgs
    /\ p \in {"g5_mm", "g5_sr"} => enabled

\* the restore command runs when main leaves the loop normally: the guard is
\* dropped, or the restore call after the loop is reached
RestoresOnLeave(p) ==
    IF p \in GuardProgs THEN RestoresOnUnwind(p) ELSE (p = "op41_sr" => enabled)

\* programs whose restore writes back the termios (or `stty -g` string) saved
\* when raw mode was entered; the others set the flags to fixed values
\* (`stty sane`, `stty cooked echo`, `stty echo -cbreak`, c_lflag |= ICANON | ECHO)
SavedTermiosProgs == {"op4_ms", "op4_mm", "op41_sr", "g5_mm", "son4_sr", "op4_sr"}

\* the flags after the restore command of program p
RestoredFlags(p, orig) == IF p \in SavedTermiosProgs THEN orig ELSE CookedFlags

\* the flags after a step that issued the restore command or entered raw mode
TtyNext ==
    IF restores' > restores THEN [tty EXCEPT !.now = RestoredFlags(prog, tty.orig)]
    ELSE IF term' = "raw" /\ term # "raw" THEN [tty EXCEPT !.now = RawFlags]
    ELSE tty

\* main ends by a panic: the stack unwinds and live guards are dropped
Unwind ==
    /\ npc' = "panicked"
    /\ IF RestoresOnUnwind(prog)
       THEN restores' = restores + 1 /\ term' = "cooked"
       ELSE UNCHANGED <<restores, term>>

\* programs that flush stdout with unwrap() before the loop
PreLoopFlushProgs == {"o3_sr", "op4_ms", "op4_mm", "op41_mm", "son4_sr", "op4_sr"}
\* programs that flush stdout with unwrap() after the loop, before restoring
FlushBeforeRestoreProgs == {"op4_ms", "op4_mm"}
\* programs that, after restoring, print a line or flush stdout with unwrap()
\* (a print! without newline only fills the line buffer and cannot fail)
WriteAfterRestoreProgs == {"op41_mm", "son4_mm", "son4_sr", "op4_sr"}

\* parse_args has returned; raw mode is entered (ok: the command succeeded)
\* and the output before the loop is written (wrote: the write succeeded)
NavEnter ==
    /\ npc = "enter"
    /\ \E ok \in BOOLEAN, wrote \in BOOLEAN :
        /\ enters' = enters + 1
        /\ enabled' = ok
        /\ IF prog = "son4_mm" /\ ~ok
           THEN \* static fallback: one frame, then return
                /\ shown' = <<cfg>>
                /\ npc' = "done"
                /\ UNCHANGED <<term, restores>>
           ELSE IF prog = "son4_sr" /\ ~ok
           THEN \* eprintln!("Failed to set raw mode"); return
                /\ npc' = "done"
                /\ UNCHANGED <<term, restores, shown>>
           ELSE IF prog = "op4_sr" /\ ~ok
           THEN \* setup_raw_mode: tcgetattr(..).unwrap() or tcsetattr(..).unwrap() panics
                /\ npc' = "panicked"
                /\ UNCHANGED <<term, restores, shown>>
           ELSE IF prog \in PreLoopFlushProgs /\ ~wrote
           THEN \* flush().unwrap() panics; a guard created before it is dropped
                /\ npc' = "panicked"
                /\ IF prog \in GuardProgs
                   THEN restores' = restores + 1 /\ term' = "cooked"
                   ELSE restores' = restores /\ term' = (IF ok THEN "raw" ELSE term)
                /\ UNCHANGED shown
           ELSE /\ term' = (IF ok THEN "raw" ELSE term)
                /\ npc' = "draw"
                /\ UNCHANGED <<restores, shown>>
    /\ tty' = TtyNext
    /\ UNCHANGED <<prog, cfg, rvars, kvars, initial_cfg, stdin, nreads, has_read, last_read,
                   last_cmds, buffer>>

\* render(cfg) is written to stdout; print!, println! and flush().unwrap()
\* panic when the write fails (wrote = FALSE)
NavDraw ==
    /\ npc = "draw"
    /\ \E wrote \in BOOLEAN :
        IF wrote
        THEN /\ shown' = <<cfg>>
             /\ npc' = "read"
             /\ UNCHANGED <<restores, term>>
        ELSE /\ Unwind
             /\ UNCHANGED shown
    /\ last_read' = <<>>
    /\ last_cmds' = <<>>
    /\ tty' = TtyNext
    /\ UNCHANGED <<prog, cfg, rvars, kvars, initial_cfg, enters, enabled, stdin, nreads, has_read,
                   buffer>>

\* the code after the loop
NavLeave ==
    /\ npc = "leave"
    /\ \E wrote \in BOOLEAN :
        IF prog \in FlushBeforeRestoreProgs /\ ~wrote
        THEN Unwind
        ELSE /\ IF RestoresOnLeave(prog)
                THEN restores' = restores + 1 /\ term' = "cooked"
                ELSE UNCHANGED <<restores, term>>
             /\ npc' = IF prog \in WriteAfterRestoreProgs /\ ~wrote
                       THEN "panicked" ELSE "done"
    /\ tty' = TtyNext
    /\ UNCHANGED <<prog, cfg, rvars, kvars, initial_cfg, enters, enabled, stdin, nreads, has_read,
                   last_read, last_cmds, shown, buffer>>

\* --- outcomes of one run of an input handler ----------------------------
\* read(&mut buffer) stores the bytes it delivers at the front of the buffer
\* and leaves the rest as it was
ReadInto(buf, bytes) ==
    [i \in 1..3 |-> IF i <= Len(bytes) THEN bytes[i] ELSE buf[i]]

\* the handler consumed bytes, left the stream in state st, decoded cmds and
\* goes on at next with cfg = c
Step(c, next, bytes, cmds, st) ==
    /\ cfg' = c
    /\ npc' = next
    /\ last_read' = bytes
    /\ last_cmds' = cmds
    /\ stdin' = st
    /\ nreads' = IF bytes # <<>> THEN nreads + 1 ELSE nreads
    /\ has_read' = TRUE
    /\ buffer' = (IF prog = "op4_sr" THEN ReadInto(buffer, bytes) ELSE buffer)
    /\ UNCHANGED <<prog, rvars, kvars, initial_cfg, term, tty, enters, restores, enabled, shown>>

\* a loop that applies a command and reads again without drawing
KeyedNoDraw(cmd, bytes, st) ==
    IF cmd = "Quit" THEN Step(cfg, "leave", bytes, <<cmd>>, st)
    ELSE Step(Apply(prog, cfg, initial_cfg, cmd), "read", bytes, <<cmd>>, st)

\* a decoded command is applied; Quit leaves the loop at once (break)
Keyed(cmd, bytes, st) ==
    IF cmd = "Quit" THEN Step(cfg, "leave", bytes, <<cmd>>, st)
    ELSE Step(Apply(prog, cfg, initial_cfg, cmd), "draw", bytes, <<cmd>>, st)

\* break without a command (a failed or empty read)
Break(bytes, st) == Step(cfg, "leave", bytes, <<>>, st)

\* nothing is decoded and the loop goes on at next
Ignore(next, bytes, st) == Step(ClampScale(prog, cfg), next, bytes, <<>>, st)

\* --- the input handlers -------------------------------------------------
Read_o3_ff ==
    /\ prog = "o3_ff" /\ npc = "read"
    /\ \E r1 \in ReadByte(stdin, FirstKeys) :
        IF r1.res # "ok" THEN Break(<<>>, r1.st)
        ELSE CASE r1.b \in {"q", "Q"} -> Keyed("Quit", <<r1.b>>, r1.st)
               [] r1.b \in {"+", "="} -> Keyed("ZoomIn", <<r1.b>>, r1.st)
               [] r1.b = "-"          -> Keyed("ZoomOut", <<r1.b>>, r1.st)
               [] r1.b = "ESC" ->
                    \E r2 \in ReadExact2(r1.st, KeyBytes) :
                        IF r2.ok /\ r2.bytes[1] = "["
                        THEN Keyed(ArrowCmd(r2.bytes[2]), <<r1.b>> \o r2.bytes, r2.st)
                        ELSE Keyed("Noop", <<r1.b>> \o r2.bytes, r2.st)
               [] OTHER -> Keyed("Noop", <<r1.b>>, r1.st)

Read_o3_sr ==
    /\ prog = "o3_sr" /\ npc = "read"
    /\ \E r \in ReadBuf(stdin, FirstKeys, 3) :
        IF r.res # "ok" THEN Break(<<>>, r.st)
        ELSE LET buf == Buf3(r.bytes, 1)
             IN  CASE buf[1] = "q" -> Keyed("Quit", r.bytes, r.st)
                   [] buf[1] = "+" -> Keyed("ZoomIn", r.bytes, r.st)
                   [] buf[1] = "-" -> Keyed("ZoomOut", r.bytes, r.st)
                   [] buf[1] = "ESC" /\ buf[2] = "[" /\ buf[3] \in {"A", "B", "C", "D"}
                        -> Keyed(ArrowCmd(buf[3]), r.bytes, r.st)
                   [] OTHER -> Keyed("Noop", r.bytes, r.st)

Read_son4_ms ==
    /\ prog = "son4_ms" /\ npc = "read"
    /\ \E r1 \in ReadByte(stdin, FirstKeys) :
        CASE r1.res = "err" -> Step(cfg, "panicked", <<>>, <<>>, r1.st)
          [] r1.res = "eof" -> Break(<<>>, r1.st)
          [] r1.b \in {"q", "Q"} -> Keyed("Quit", <<r1.b>>, r1.st)
          [] r1.b \in {"+", "="} -> Keyed("ZoomIn", <<r1.b>>, r1.st)
          [] r1.b \in {"-", "_"} -> Keyed("ZoomOut", <<r1.b>>, r1.st)
          [] r1.b = "ESC" ->
               \E r2 \in ReadBuf(r1.st, KeyBytes, 2) :
                   IF r2.res = "err" THEN Step(cfg, "panicked", <<r1.b>>, <<>>, r2.st)
                   ELSE IF Len(r2.bytes) = 2 /\ r2.bytes[1] = "["
                   THEN Keyed(ArrowCmd(r2.bytes[2]), <<r1.b>> \o r2.bytes, r2.st)
                   ELSE Keyed("Noop", <<r1.b>> \o r2.bytes, r2.st)
          [] OTHER -> Keyed("Noop", <<r1.b>>, r1.st)

Read_son4_mm ==
    /\ prog = "son4_mm" /\ npc = "read"
    /\ \E r1 \in ReadByte(stdin, FirstKeys) :
        IF r1.res # "ok" THEN Ignore("draw", <<>>, r1.st)
        ELSE CASE r1.b \in {"q", "Q"} -> Keyed("Quit", <<r1.b>>, r1.st)
               [] r1.b \in {"+", "="} -> Keyed("ZoomIn", <<r1.b>>, r1.st)
               [] r1.b \in {"-", "_"} -> Keyed("ZoomOut", <<r1.b>>, r1.st)
               [] r1.b = "ESC" ->
                    \* (read_key(), read_key()): both reads are made
                    \E r2 \in ReadByte(r1.st, KeyBytes) :
                    \E r3 \in ReadByte(r2.st, KeyBytes) :
                        LET bytes == <<r1.b>>
                                     \o (IF r2.res = "ok" THEN <<r2.b>> ELSE <<>>)
                                     \o (IF r3.res = "ok" THEN <<r3.b>> ELSE <<>>)
                        IN  IF r2.res = "ok" /\ r2.b = "[" /\ r3.res = "ok"
                            THEN Keyed(ArrowCmd(r3.b), bytes, r3.st)
                            ELSE Keyed("Noop", bytes, r3.st)
               [] r1.b \in {"w", "W"} -> Keyed("PanUp", <<r1.b>>, r1.st)
               [] r1.b \in {"s", "S"} -> Keyed("PanDown", <<r1.b>>, r1.st)
               [] r1.b \in {"a", "A"} -> Keyed("PanLeft", <<r1.b>>, r1.st)
               [] r1.b \in {"d", "D"} -> Keyed("PanRight", <<r1.b>>, r1.st)
               [] OTHER -> Keyed("Noop", <<r1.b>>, r1.st)

Read_op4_ms ==
    /\ prog = "op4_ms" /\ npc = "read"
    /\ \E r \in ReadBuf(stdin, FirstKeys, 3) :
        IF r.res = "err" THEN Ignore("draw", <<>>, r.st)
        ELSE LET buf == Buf3(r.bytes, 1)
             IN  CASE buf[1] \in {"q", "Q"} -> Keyed("Quit", r.bytes, r.st)
                   [] buf[1] \in {"+", "="} -> Keyed("ZoomIn", r.bytes, r.st)
                   [] buf[1] \in {"-", "_"} -> Keyed("ZoomOut", r.bytes, r.st)
                   [] buf[1] = "ESC" /\ buf[2] = "[" /\ buf[3] \in {"A", "B", "C", "D"}
                        -> Keyed(ArrowCmd(buf[3]), r.bytes, r.st)
                   [] OTHER -> Keyed("Noop", r.bytes, r.st)

Read_op4_mm ==
    /\ prog = "op4_mm" /\ npc = "read"
    /\ \E r1 \in ReadBuf(stdin, FirstKeys, 1) :
        IF r1.res = "err" THEN Break(<<>>, r1.st)
        ELSE LET b0 == Buf3(r1.bytes, 1)[1]
             IN  CASE b0 \in {"q", "Q"} -> Keyed("Quit", r1.bytes, r1.st)
                   [] b0 \in {"+", "="} -> Keyed("ZoomIn", r1.bytes, r1.st)
                   [] b0 \in {"-", "_"} -> Keyed("ZoomOut", r1.bytes, r1.st)
                   [] b0 = "ESC" ->
                        \E r2 \in ReadBuf(r1.st, KeyBytes, 2) :
                            LET buf == Buf3(r2.bytes, 2)
                            IN  IF r2.res # "err" /\ buf[2] = "["
                                THEN Keyed(ArrowCmd(buf[3]), r1.bytes \o r2.bytes, r2.st)
                                ELSE Keyed("Noop", r1.bytes \o r2.bytes, r2.st)
                   [] OTHER -> Keyed("Noop", r1.bytes, r1.st)

Read_op4_ff ==
    /\ prog = "op4_ff" /\ npc = "read"
    /\ \E r \in ReadBuf(stdin, FirstKeys, 3) :
        LET buf == Buf3(r.bytes, 1)
        IN  CASE buf[1] \in {"q", "Q"} -> Keyed("Quit", r.bytes, r.st)
              [] buf[1] \in {"+", "="} -> Keyed("ZoomIn", r.bytes, r.st)
              [] buf[1] \in {"-", "_"} -> Keyed("ZoomOut", r.bytes, r.st)
              [] buf[1] = "ESC" /\ buf[2] = "["
                   -> Keyed(ArrowCmd(buf[3]), r.bytes, r.st)
              [] OTHER -> Keyed("Noop", r.bytes, r.st)

Read_op41_sr ==
    /\ prog = "op41_sr" /\ npc = "read"
    /\ \E r \in ReadBuf(stdin, FirstKeys, 3) :
        IF r.res # "ok" THEN Break(<<>>, r.st)
        ELSE CASE r.bytes \in {<<"q">>, <<"Q">>} -> Keyed("Quit", r.bytes, r.st)
               [] r.bytes \in {<<"+">>, <<"=">>} -> Keyed("ZoomIn", r.bytes, r.st)
               [] r.bytes \in {<<"-">>, <<"_">>} -> Keyed("ZoomOut", r.bytes, r.st)
               [] Len(r.bytes) = 3 /\ r.bytes[1] = "ESC" /\ r.bytes[2] = "["
                  /\ r.bytes[3] \in {"A", "B", "C", "D"}
                    -> Keyed(ArrowCmd(r.bytes[3]), r.bytes, r.st)
               [] OTHER -> Keyed("Noop", r.bytes, r.st)

Read_op41_mm ==
    /\ prog = "op41_mm" /\ npc = "read"
    /\ \E r1 \in ReadByte(stdin, FirstKeys) :
        IF r1.res # "ok" THEN Ignore("draw", <<>>, r1.st)
        ELSE CASE r1.b \in {"q", "Q"} -> Keyed("Quit", <<r1.b>>, r1.st)
               [] r1.b \in {"r", "R"} -> Keyed("Reset", <<r1.b>>, r1.st)
               [] r1.b \in {"+", "="} -> Keyed("ZoomIn", <<r1.b>>, r1.st)
               [] r1.b \in {"-", "_"} -> Keyed("ZoomOut", <<r1.b>>, r1.st)
               [] r1.b = "ESC" ->
                    \E r2 \in ReadByte(r1.st, KeyBytes) :
                        IF r2.res = "ok" /\ r2.b = "["
                        THEN \E r3 \in ReadByte(r2.st, KeyBytes) :
                                IF r3.res = "ok"
                                THEN Keyed(ArrowCmd(r3.b), <<r1.b, r2.b, r3.b>>, r3.st)
                                ELSE Keyed("Noop", <<r1.b, r2.b>>, r3.st)
                        ELSE Keyed("Noop",
                                   <<r1.b>> \o (IF r2.res = "ok" THEN <<r2.b>> ELSE <<>>),
                                   r2.st)
               [] OTHER -> Keyed("Noop", <<r1.b>>, r1.st)

Read_g5_ms ==
    /\ prog = "g5_ms" /\ npc = "read"
    /\ \E r1 \in ReadByte(stdin, FirstKeys) :
        IF r1.res # "ok" THEN Ignore("draw", <<>>, r1.st)
        ELSE CASE r1.b \in {"q", "Q"} -> Keyed("Quit", <<r1.b>>, r1.st)
               [] r1.b \in {"+", "="} -> Keyed("ZoomIn", <<r1.b>>, r1.st)
               [] r1.b \in {"-", "_"} -> Keyed("ZoomOut", <<r1.b>>, r1.st)
               [] r1.b = "ESC" ->
                    \E r2 \in ReadByte(r1.st, KeyBytes) :
                        IF r2.res = "ok" /\ r2.b = "["
                        THEN \E r3 \in ReadByte(r2.st, KeyBytes) :
                                IF r3.res = "ok"
                                THEN Keyed(ArrowCmd(r3.b), <<r1.b, r2.b, r3.b>>, r3.st)
                                ELSE Keyed("Noop", <<r1.b, r2.b>>, r3.st)
                        ELSE Keyed("Noop",
                                   <<r1.b>> \o (IF r2.res = "ok" THEN <<r2.b>> ELSE <<>>),
                                   r2.st)
               [] OTHER -> Keyed("Noop", <<r1.b>>, r1.st)

\* bytes h j k l of the vim bindings
VimCmd(b) ==
    CASE b = "h" -> "PanLeft" [] b = "j" -> "PanDown"
      [] b = "k" -> "PanUp"   [] b = "l" -> "PanRight"

Read_g5_mm ==
    /\ prog = "g5_mm" /\ npc = "read"
    /\ \E r1 \in ReadByte(stdin, FirstKeys) :
        IF r1.res # "ok" THEN Ignore("draw", <<>>, r1.st)
        ELSE CASE r1.b \in {"q", "Q"} -> Keyed("Quit", <<r1.b>>, r1.st)
               [] r1.b \in {"+", "="} -> Keyed("ZoomIn", <<r1.b>>, r1.st)
               [] r1.b \in {"-", "_"} -> Keyed("ZoomOut", <<r1.b>>, r1.st)
               [] r1.b \in {"h", "j", "k", "l"} -> Keyed(VimCmd(r1.b), <<r1.b>>, r1.st)
               [] r1.b = "ESC" ->
                    \E r2 \in ReadExact2(r1.st, KeyBytes) :
                        IF r2.ok /\ r2.bytes[1] = "["
                        THEN Keyed(ArrowCmd(r2.bytes[2]), <<r1.b>> \o r2.bytes, r2.st)
                        ELSE Keyed("Noop", <<r1.b>> \o r2.bytes, r2.st)
               [] OTHER -> Keyed("Noop", <<r1.b>>, r1.st)

Read_o3_ms ==
    /\ prog = "o3_ms" /\ npc = "read"
    /\ \E r1 \in ReadByte(stdin, FirstKeys) :
        IF r1.res # "ok" THEN Break(<<>>, r1.st)
        ELSE CASE r1.b = "ESC" ->
                    \E r2 \in ReadExact2(r1.st, KeyBytes) :
                        IF r2.ok /\ r2.bytes[1] = "["
                        THEN Keyed(ArrowCmd(r2.bytes[2]), <<r1.b>> \o r2.bytes, r2.st)
                        ELSE Keyed("Noop", <<r1.b>> \o r2.bytes, r2.st)
               [] r1.b \in {"+", "="} -> Keyed("ZoomIn", <<r1.b>>, r1.st)
               [] r1.b \in {"-", "_"} -> Keyed("ZoomOut", <<r1.b>>, r1.st)
               [] r1.b \in {"q", "Q"} -> Keyed("Quit", <<r1.b>>, r1.st)
               [] OTHER -> Keyed("Noop", <<r1.b>>, r1.st)

Read_o3_mm ==
    /\ prog = "o3_mm" /\ npc = "read"
    /\ \E r1 \in ReadByte(stdin, FirstKeys) :
        IF r1.res # "ok" THEN Break(<<>>, r1.st)
        ELSE CASE r1.b = "q" -> Keyed("Quit", <<r1.b>>, r1.st)
               [] r1.b \in {"+", "="} -> Keyed("ZoomIn", <<r1.b>>, r1.st)
               [] r1.b \in {"-", "_"} -> Keyed("ZoomOut", <<r1.b>>, r1.st)
               [] r1.b = "ESC" ->
                    \E r2 \in ReadByte(r1.st, KeyBytes) :
                        IF r2.res = "ok" /\ r2.b = "["
                        THEN \E r3 \in ReadByte(r2.st, KeyBytes) :
                                IF r3.res = "ok"
                                THEN Keyed(ArrowCmd(r3.b), <<r1.b, r2.b, r3.b>>, r3.st)
                                ELSE Keyed("Noop", <<r1.b, r2.b>>, r3.st)
                        ELSE Keyed("Noop",
                                   <<r1.b>> \o (IF r2.res = "ok" THEN <<r2.b>> ELSE <<>>),
                                   r2.st)
               [] OTHER -> Keyed("Noop", <<r1.b>>, r1.st)

\* read_key().unwrap_or(0): the byte, or 0 when the read failed
ByteOr0(r) == IF r.res = "ok" THEN r.b ELSE NUL

Read_son4_sr ==
    /\ prog = "son4_sr" /\ npc = "read"
    /\ \E r1 \in ReadByte(stdin, FirstKeys) :
        IF r1.res # "ok" THEN Break(<<>>, r1.st)
        ELSE CASE r1.b = "q" -> Keyed("Quit", <<r1.b>>, r1.st)
               [] r1.b \in {"+", "="} -> Keyed("ZoomIn", <<r1.b>>, r1.st)
               [] r1.b = "-" -> Keyed("ZoomOut", <<r1.b>>, r1.st)
               [] r1.b = "ESC" ->
                    \E r2 \in ReadByte(r1.st, KeyBytes) :
                        LET b12 == <<r1.b>> \o (IF r2.res = "ok" THEN <<r2.b>> ELSE <<>>)
                        IN  IF ByteOr0(r2) = "["
                            THEN \E r3 \in ReadByte(r2.st, KeyBytes) :
                                    Keyed(ArrowCmd(ByteOr0(r3)),
                                          b12 \o (IF r3.res = "ok" THEN <<r3.b>> ELSE <<>>),
                                          r3.st)
                            ELSE \* `_ => break`: ESC alone quits
                                 Keyed("Quit", b12, r2.st)
               [] OTHER -> Keyed("Noop", <<r1.b>>, r1.st)

\* Key::None of g5_sr: `continue`, the frame is not drawn again
NoKey(bytes, st) == Step(cfg, "read", bytes, <<>>, st)

\* first character of a line in the line-mode fallback
LineCmd(ch) ==
    CASE ch \in {"w", "W"} -> "PanUp"   [] ch \in {"s", "S"} -> "PanDown"
      [] ch \in {"a", "A"} -> "PanLeft" [] ch \in {"d", "D"} -> "PanRight"
      [] ch \in {"+", "="} -> "ZoomIn"  [] ch \in {"-", "_"} -> "ZoomOut"
      [] ch \in {"q", "Q"} -> "Quit"    [] ch \in {"r", "R"} -> "Reset"
      [] OTHER -> "None"

Read_g5_sr ==
    /\ prog = "g5_sr" /\ npc = "read"
    /\ \E r1 \in ReadByte(stdin, FirstKeys) :
        IF r1.res # "ok" THEN NoKey(<<>>, r1.st)
        ELSE IF ~enabled
        THEN \* read_key_line: the line's first character decides
             IF LineCmd(r1.b) = "None" THEN NoKey(<<r1.b>>, r1.st)
             ELSE Keyed(LineCmd(r1.b), <<r1.b>>, r1.st)
        ELSE CASE r1.b \in {"ETX", "q", "Q"} -> Keyed("Quit", <<r1.b>>, r1.st)
               [] r1.b \in {"+", "="} -> Keyed("ZoomIn", <<r1.b>>, r1.st)
               [] r1.b \in {"-", "_"} -> Keyed("ZoomOut", <<r1.b>>, r1.st)
               [] r1.b \in {"r", "R"} -> Keyed("Reset", <<r1.b>>, r1.st)
               [] r1.b = "ESC" ->
                    \E r2 \in ReadExact2(r1.st, KeyBytes) :
                        IF r2.ok /\ r2.bytes[1] = "[" /\ r2.bytes[2] \in {"A", "B", "C", "D"}
                        THEN Keyed(ArrowCmd(r2.bytes[2]), <<r1.b>> \o r2.bytes, r2.st)
                        ELSE NoKey(<<r1.b>> \o r2.bytes, r2.st)
               [] r1.b \in {"h", "j", "k", "l"} -> Keyed(VimCmd(r1.b), <<r1.b>>, r1.st)
               [] OTHER -> NoKey(<<r1.b>>, r1.st)

\* the bytes typed at op4_sr
Op4SrKeys == IF nreads < MaxReads THEN {"q", "+", "ESC", "[", "A"} ELSE {}

\* a match on buffer[0] whose escape arm does not look at n
Decode_op4_sr_AnyLen(buf, n) ==
    CASE buf[1] \in {"q", "Q"} -> "Quit"
      [] buf[1] \in {"+", "="} -> "ZoomIn"
      [] buf[1] \in {"-", "_"} -> "ZoomOut"
      [] buf[1] = "ESC" /\ buf[2] = "[" /\ buf[3] \in {"A", "B", "C", "D"}
           -> ArrowCmd(buf[3])
      [] OTHER -> "None"

\* the match on buffer[0] of op4_sr, n bytes having been delivered: the
\* command whose arm sets redraw, "Quit", or "None"
Decode_op4_sr(buf, n) ==
    CASE buf[1] \in {"q", "Q"} -> "Quit"
      [] buf[1] \in {"+", "="} -> "ZoomIn"
      [] buf[1] \in {"-", "_"} -> "ZoomOut"
      [] buf[1] = "ESC" /\ n >= 3 /\ buf[2] = "[" /\ buf[3] \in {"A", "B", "C", "D"}
           -> ArrowCmd(buf[3])
      [] OTHER -> "None"

Read_op4_sr ==
    /\ prog = "op4_sr" /\ npc = "read"
    /\ \E r \in ReadBuf(stdin, Op4SrKeys, 3) :
        \* Err(_): the loop repeats; Ok(0): continue
        IF r.res # "ok" THEN NoKey(<<>>, r.st)
        ELSE LET cmd == Decode_op4_sr(ReadInto(buffer, r.bytes), Len(r.bytes))
             IN  IF cmd = "None" THEN NoKey(r.bytes, r.st)
                 ELSE Keyed(cmd, r.bytes, r.st)

\* --- the interactive specifications -------------------------------------
\* the command lines main is started with: none, or a small grid and view
NavArgs ==
    {<<>>,
     <<Arg("w", I2F(MaxW)), Arg("h", I2F(MaxH)), Arg("cx", -700), Arg("scale", 2000),
       Arg("iters", 5000)>>,
     <<Arg("scale", 0)>>,
     <<Arg("scale", NaN)>>}

\* the render state of a program that is interactive
RenderIdle ==
    /\ ap = 0
    /\ threads = 0
    /\ rpc = "none"
    /\ spawn_t = 0
    /\ wst = <<>>
    /\ wy = <<>>
    /\ chan = <<>>
    /\ lines = <<>>
    /\ poisoned = FALSE
    /\ joined = 0
    /\ arrived = <<>>
    /\ out = <<>>

\* the ICANON and ECHO settings a terminal can have when the program starts
TtySettings == [icanon : BOOLEAN, echo : BOOLEAN]

\* how a program is started: its arguments and the terminal's settings (every
\* argument list on a cooked terminal, every terminal setting without arguments)
NavStarts ==
    {<<a, CookedFlags>> : a \in NavArgs} \cup {<<<<>>, f>> : f \in TtySettings}

NavInitOf(progs) ==
    /\ prog \in progs
    /\ \E st \in NavStarts :
          /\ cfg = parse_args(st[1])
          /\ tty = [orig |-> st[2], now |-> st[2]]
    /\ initial_cfg = cfg
    /\ npc = "enter"
    /\ term = "cooked"
    /\ enters = 0
    /\ restores = 0
    /\ enabled = FALSE
    /\ stdin = "open"
    /\ nreads = 0
    /\ has_read = FALSE
    /\ last_read = <<>>
    /\ last_cmds = <<>>
    /\ shown = <<>>
    /\ buffer = <<NUL, NUL, NUL>>
    /\ RenderIdle
    /\ KernelIdle

NavInit == NavInitOf(NavProgs)

NavNext ==
    \/ NavEnter
    \/ NavDraw
    \/ NavLeave
    \/ Read_o3_ff
    \/ Read_o3_sr
    \/ Read_son4_ms
    \/ Read_son4_mm
    \/ Read_op4_ms
    \/ Read_op4_mm
    \/ Read_op4_ff
    \/ Read_op41_sr
    \/ Read_op41_mm
    \/ Read_g5_ms
    \/ Read_g5_mm
    \/ Read_g5_sr
    \/ Read_o3_ms
    \/ Read_son4_sr
    \/ Read_op4_sr
    \/ Read_o3_mm

SpecNav == NavInit /\ [][NavNext]_vars

\* the gpt-5 interactive programs alone, every enabled step of main
\* eventually taken (the process is scheduled)
G5Progs == {"g5_ms", "g5_mm", "g5_sr"}
G5Init == NavInitOf(G5Progs)
G5Next ==
    \/ NavEnter
    \/ NavDraw
    \/ NavLeave
    \/ Read_g5_ms
    \/ Read_g5_mm
    \/ Read_g5_sr
SpecG5Fair == G5Init /\ [][G5Next]_vars /\ WF_vars(G5Next)

\* claude-opus-4 search_replace alone
Op4SrInit == NavInitOf({"op4_sr"})

Op4SrNext ==
    \/ NavEnter
    \/ NavDraw
    \/ NavLeave
    \/ Read_op4_sr

SpecOp4Sr == Op4SrInit /\ [][Op4SrNext]_vars

\* the programs whose loop applies a key to cfg and does nothing else to it:
\* no clamp of scale, no reset
PlainKeyProgs == {"o3_ff", "o3_mm", "g5_ms"}

PlainKeyInit == NavInitOf(PlainKeyProgs)

PlainKeyNext ==
    \/ NavEnter
    \/ NavDraw
    \/ NavLeave
    \/ Read_o3_ff
    \/ Read_o3_mm
    \/ Read_g5_ms

SpecPlainKey == PlainKeyInit /\ [][PlainKeyNext]_vars

(***************************************************************************)
(* One call of the escape-time kernel followed by the glyph mapper, as     *)
(* render makes it for one sample point.                                   *)
(***************************************************************************)
Coords == {k * (FX \div 2) : k \in (-MaxCoord)..MaxCoord}

\* the sample points of a call: finite coordinates, or a NaN coordinate
Points == {<<x, y>> : x \in Coords, y \in Coords} \cup {<<NaN, 0>>, <<0, NaN>>}

KernelInit ==
    /\ prog = "kernel"
    /\ cfg = ConfigDefault
    /\ kpc = "start"
    /\ kin \in {[zx |-> 0, zy |-> 0, cx |-> pt[1], cy |-> pt[2], max_iter |-> n] :
                  pt \in Points, n \in 0..MaxIter}
    /\ kout = <<>>
    /\ kz = <<>>
    /\ call = <<>>
    /\ RenderIdle
    /\ NavIdle

\* let it = mandel_escape(0.0, 0.0, u, v, cfg.iters)
KernelEscape ==
    /\ kpc = "start"
    /\ kout' = [it |-> mandel_escape(kin.zx, kin.zy, kin.cx, kin.cy, kin.max_iter),
                glyph |-> ""]
    /\ kpc' = "escaped"
    /\ UNCHANGED <<prog, cfg, rvars, nvars, call, kin, kz>>

\* (mutation) the loop stops as soon as |z|^2 reaches 4
WhileCondStrict(zx, zy, i, max_iter) ==
    /\ FAdd(FMul(zx, zx), FMul(zy, zy)) # NaN
    /\ FAdd(FMul(zx, zx), FMul(zy, zy)) < 4 * FX
    /\ i < max_iter

\* zx * zx + zy * zy <= 4.0 && i < max_iter
WhileCond(zx, zy, i, max_iter) ==
    FLe(FAdd(FMul(zx, zx), FMul(zy, zy)), 4 * FX) /\ i < max_iter

\* the same call observed one loop iteration at a time: entry (let mut i = 0)
KernelEnter ==
    /\ kpc = "start"
    /\ kz' = [zx |-> kin.zx, zy |-> kin.zy, i |-> 0]
    /\ kpc' = "loop"
    /\ UNCHANGED <<prog, cfg, rvars, nvars, call, kin, kout>>

\* one iteration of the while loop
KernelIterate ==
    /\ kpc = "loop"
    /\ WhileCond(kz.zx, kz.zy, kz.i, kin.max_iter)
    /\ kz' = [zx |-> FAdd(FSub(FMul(kz.zx, kz.zx), FMul(kz.zy, kz.zy)), kin.cx),
              zy |-> FAdd(FMul(FMul(2 * FX, kz.zx), kz.zy), kin.cy),
              i |-> kz.i + 1]
    /\ UNCHANGED <<prog, cfg, rvars, nvars, call, kin, kout, kpc>>

\* the loop condition is false: i is returned
KernelLeave ==
    /\ kpc = "loop"
    /\ ~WhileCond(kz.zx, kz.zy, kz.i, kin.max_iter)
    /\ kout' = [it |-> kz.i, glyph |-> ""]
    /\ kpc' = "escaped"
    /\ UNCHANGED <<prog, cfg, rvars, nvars, call, kin, kz>>

\* out.push(shade(it, cfg.iters))
KernelShade ==
    /\ kpc = "escaped"
    /\ kout' = [kout EXCEPT !.glyph = shade(kout.it, kin.max_iter)]
    /\ kpc' = "shaded"
    /\ UNCHANGED <<prog, cfg, rvars, nvars, call, kin, kz>>

KernelNext ==
    \/ KernelEscape
    \/ KernelEnter
    \/ KernelIterate
    \/ KernelLeave
    \/ KernelShade

SpecKernel == KernelInit /\ [][KernelNext]_vars

(***************************************************************************)
(* One call of the glyph mapper or of the argument parser.                 *)
(*   g5_ms    gpt-5 interactive_zooming_morph_single: shade, parse_args    *)
(*   g5_ps    gpt-5 palette_switch_full_file: shade(it, max_iter, pal)     *)
(*   op41_ps  claude-opus-4.1 palette_switch_morph_single: shade           *)
(*   son4_pmm claude-sonnet-4 palette_switch_morph_multi: shade            *)
(*   son4_pms claude-sonnet-4 palette_switch_morph_single: shade           *)
(*   op41_color  claude-opus-4.1 add_color_search_replace: shade           *)
(* Characters outside ASCII are written by their names.                    *)
(***************************************************************************)
\* gpt-5 palette_switch_full_file
PALETTE_SYMBOLS == <<" ", ".", ":", "-", "=", "+", "*", "#", "%", "@">>
PALETTE_NUMBERS == <<" ", "1", "2", "3", "4", "5", "6", "7", "8", "9">>
PALETTE_EMOJI ==
    <<" ", "middle_dot", "bullet", "small_square", "medium_small_square",
      "medium_square", "large_square", "purple_square", "blue_square", "green_square">>

palette_chars(kind) ==
    CASE kind = "Symbols" -> PALETTE_SYMBOLS
      [] kind = "Numbers" -> PALETTE_NUMBERS
      [] kind = "Emoji"   -> PALETTE_EMOJI

shade_pal(it, max_iter, pal) ==
    IF it >= max_iter THEN pal[Len(pal)]
    ELSE pal[ShadeIdx(it, max_iter, Len(pal)) + 1]

\* claude-opus-4.1 palette_switch_morph_single
PALETTE_NUMS == <<" ", "1", "2", "3", "4", "5", "6", "7", "8", "9">>
OP41_PALETTE_EMOJI ==
    <<"white_large_square", "blue_square", "purple_square", "green_square",
      "yellow_square", "orange_square", "red_circle", "red_square", "brown_square",
      "black_large_square">>
OP41_PALETTE_SYMBOLS ==
    <<" ", "light_shade", "medium_shade", "dark_shade", "full_block", "upper_half",
      "lower_half", "right_half", "left_half", "black_circle">>

PaletteOf(palette) ==
    CASE palette = "Default" -> PALETTE
      [] palette = "Numbers" -> PALETTE_NUMS
      [] palette = "Emoji"   -> OP41_PALETTE_EMOJI
      [] palette = "Symbols" -> OP41_PALETTE_SYMBOLS

shade_op41(it, max_iter, palette) ==
    IF it >= max_iter
    THEN IF palette = "Emoji" THEN "black_large_square" ELSE "@"
    ELSE PaletteOf(palette)[ShadeIdx(it, max_iter, Len(PaletteOf(palette))) + 1]

\* claude-sonnet-4 palette_switch_morph_multi (its PALETTE_SYMBOLS is the one
\* above): a blank and the ten digits; a blank and nine moons
SON4_MM_PALETTE_NUMBERS == <<" ", "0", "1", "2", "3", "4", "5", "6", "7", "8", "9">>
SON4_MM_PALETTE_EMOJI ==
    <<" ", "new_moon", "waxing_crescent", "first_quarter", "waxing_gibbous", "full_moon",
      "waning_gibbous", "last_quarter", "waning_crescent", "new_moon_face">>

\* claude-sonnet-4 palette_switch_morph_single: the ten digits; a blank, a dot
\* and nine moons
SON4_MS_PALETTE_NUMBERS == <<"0", "1", "2", "3", "4", "5", "6", "7", "8", "9">>
SON4_MS_PALETTE_EMOJI ==
    <<" ", ".", "new_moon", "waxing_crescent", "first_quarter", "waxing_gibbous",
      "full_moon", "waning_gibbous", "last_quarter", "waning_crescent", "new_moon_face">>

\* the characters of the palette a claude-sonnet-4 variant indexes
Glyphs_son4(variant, palette) ==
    CASE palette = "Symbols" -> PALETTE_SYMBOLS
      [] palette = "Numbers" -> IF variant = "son4_pmm" THEN SON4_MM_PALETTE_NUMBERS
                                ELSE SON4_MS_PALETTE_NUMBERS
      [] palette = "Emoji"   -> IF variant = "son4_pmm" THEN SON4_MM_PALETTE_EMOJI
                                ELSE SON4_MS_PALETTE_EMOJI

\* a shade that takes the length of the emoji string in bytes: one for a
\* blank or a dot, four for a moon
LenUsedInBytes_son4(variant, palette) ==
    IF palette = "Emoji"
    THEN IF variant = "son4_pmm" THEN 1 + 4 * 9 ELSE 2 + 4 * 9
    ELSE Len(Glyphs_son4(variant, palette))

\* the length shade scales t by: len() of the byte strings (one byte per
\* character), chars().count() and chars.len() of the emoji strings
LenUsed_son4(variant, palette) == Len(Glyphs_son4(variant, palette))

\* shade of the claude-sonnet-4 variants: slices and Vec panic on an index out
\* of range, chars().nth(idx).unwrap_or(c) gives c
shade_son4(variant, it, max_iter, palette) ==
    LET interior == CASE palette = "Symbols" -> "@"
                      [] palette = "Numbers" -> "9"
                      [] palette = "Emoji"   -> "new_moon_face"
        pal == Glyphs_son4(variant, palette)
        idx == ShadeIdx(it, max_iter, LenUsed_son4(variant, palette))
    IN  IF it >= max_iter THEN interior
        ELSE IF idx < Len(pal) THEN pal[idx + 1]
        ELSE IF variant = "son4_pmm" /\ palette # "Symbols" THEN interior
        ELSE "panic"

\* claude-opus-4.1 add_color_search_replace: the 256-colour codes of COLORS
\* and the glyphs of chars
COLORS == <<"c232", "c17", "c19", "c21", "c51", "c46", "c226", "c208", "c196", "c201">>
chars ==
    <<"middle_dot", "bullet_operator", "bullet", "white_circle", "fisheye", "bullseye",
      "diamond_in_diamond", "black_diamond", "white_diamond", "lozenge">>

\* a colour index that does not skip black
ColorIdxFromZero(it, max_iter) ==
    Min(ShadeIdx(it, max_iter, Len(COLORS)), Len(COLORS) - 1)

\* idx.min(COLORS.len() - 1).max(1)
ColorIdx(it, max_iter) ==
    Max(Min(ShadeIdx(it, max_iter, Len(COLORS)), Len(COLORS) - 1), 1)

\* (idx - 1).min(chars.len() - 1); idx - 1 wraps to the largest usize at idx = 0
CharIdx(idx) == IF idx >= 1 THEN Min(idx - 1, Len(chars) - 1) ELSE Len(chars) - 1

\* shade of add_color_search_replace: the pair (colour, glyph)
shade_color(it, max_iter) ==
    IF it >= max_iter THEN <<COLORS[1], "#">>
    ELSE <<COLORS[ColorIdx(it, max_iter) + 1], chars[CharIdx(ColorIdx(it, max_iter)) + 1]>>

\* the shade of each variant, with the palette it can be called with
ShadeVariants ==
    {<<"g5_ms", "Fixed">>} \cup {<<"g5_ps", k>> : k \in {"Symbols", "Numbers", "Emoji"}}
    \cup {<<"op41_ps", k>> : k \in {"Default", "Numbers", "Emoji", "Symbols"}}
    \cup {<<v, k>> : v \in {"son4_pmm", "son4_pms"}, k \in {"Symbols", "Numbers", "Emoji"}}
    \cup {<<"op41_color", "Fixed">>}

ShadeCalls ==
    {[f |-> "shade", variant |-> v[1], palette |-> v[2], it |-> i, max_iter |-> n] :
        v \in ShadeVariants, i \in 0..(MaxShadeIter + 1), n \in 0..MaxShadeIter}

\* the arguments given on a command line: values that parse and values that do not
ArgChoices ==
    {Arg("w", 2000), BadArg("w"), Arg("h", 2000), BadArg("h"), Arg("cx", 1000),
     BadArg("cx"), Arg("cy", 1000), BadArg("cy"), Arg("scale", 1000), BadArg("scale"),
     Arg("iters", 5000), BadArg("iters"), BadArg("zoom")}

ArgLists == UNION {[1..n -> ArgChoices] : n \in 0..MaxArgs}

ParseCalls == {[f |-> "parse_args", args |-> a] : a \in ArgLists}

CallInit ==
    /\ prog = "call"
    /\ cfg = ConfigDefault
    /\ call \in {[in |-> c, pc |-> "start", out |-> <<>>] : c \in ShadeCalls \cup ParseCalls}
    /\ kpc = "none"
    /\ kin = <<>>
    /\ kout = <<>>
    /\ kz = <<>>
    /\ RenderIdle
    /\ NavIdle

\* shade(it, max_iter) / shade(it, max_iter, pal) / shade(it, max_iter, palette)
ShadeCall ==
    /\ call # <<>>
    /\ call.pc = "start"
    /\ call.in.f = "shade"
    /\ call' = [call EXCEPT
                  !.pc = "done",
                  !.out = CASE call.in.variant = "g5_ms" ->
                                 shade(call.in.it, call.in.max_iter)
                            [] call.in.variant = "g5_ps" ->
                                 shade_pal(call.in.it, call.in.max_iter,
                                           palette_chars(call.in.palette))
                            [] call.in.variant = "op41_ps" ->
                                 shade_op41(call.in.it, call.in.max_iter, call.in.palette)
                            [] call.in.variant \in {"son4_pmm", "son4_pms"} ->
                                 shade_son4(call.in.variant, call.in.it, call.in.max_iter,
                                            call.in.palette)
                            [] call.in.variant = "op41_color" ->
                                 shade_color(call.in.it, call.in.max_iter)]
    /\ UNCHANGED <<prog, cfg, rvars, nvars, kpc, kin, kout, kz>>

\* let cfg = parse_args()
ParseCall ==
    /\ call # <<>>
    /\ call.pc = "start"
    /\ call.in.f = "parse_args"
    /\ call' = [call EXCEPT !.pc = "done", !.out = parse_args(call.in.args)]
    /\ UNCHANGED <<prog, cfg, rvars, nvars, kpc, kin, kout, kz>>

CallNext ==
    \/ ShadeCall
    \/ ParseCall

SpecCall == CallInit /\ [][CallNext]_vars

\* the whole repository: a rendering program, an interactive one, or one
\* call of a function
Init == RenderInit \/ NavInit \/ KernelInit \/ CallInit
Next == RenderFaultNext \/ NavNext \/ KernelNext \/ CallNext
Spec == Init /\ [][Next]_vars

(***************************************************************************)
(* Properties of the multi-threaded renders.                               *)
(***************************************************************************)
\* the frame in which slot y holds the row a worker builds for index y
FrameByIndex(p, c) == Concat(p, c, [y \in 0..(c.height - 1) |-> WorkerLine(p, c, y)])

\* C1: in the channel-based renders the returned frame is the rows placed by
\* row index, whatever order the (row_index, row) pairs were received in: the
\* frame is a function of the Config alone, not of the interleaving.
C1_FrameIndependentOfArrival ==
    (prog \in ChannelProgs /\ rpc = "done") => out = FrameByIndex(prog, cfg)

\* C1 witness: a render has returned after receiving rows out of index order
C1_Witness ==
    /\ prog \in ChannelProgs
    /\ rpc = "done"
    /\ \E i \in 1..(Len(arrived) - 1) : arrived[i] > arrived[i + 1]

\* C2: the strided multi-threaded render of gpt-5 parallel_rendering_full_file
\* returns exactly the frame of the sequential render, for every worker count.
C2_StridedEqualsSequential ==
    (prog = "g5_par_ff" /\ rpc = "done") => out = render(cfg)

\* C2 witness: a strided render with at least two workers and three rows returned
C2_Witness ==
    /\ prog = "g5_par_ff"
    /\ rpc = "done"
    /\ threads >= 2
    /\ cfg.height >= 3
    /\ Len(out) = cfg.height * (cfg.width + 1)

\* C3: in the renders that discard the join result, a frame is returned only
\* with every row index filled (the alternative being that the fault is
\* propagated, i.e. render does not return).
DiscardJoinProgs == {"g5_par_ff", "g5_par_ms", "g5_par_sr"}
C3_NoRowMissingOnFault ==
    (prog \in DiscardJoinProgs /\ rpc = "done") =>
        \A y \in 0..(cfg.height - 1) : lines[y] = WorkerLine(prog, cfg, y)

(***************************************************************************)
(* Properties of the interactive programs.                                 *)
(***************************************************************************)
Ended == npc \in {"done", "panicked"}

\* C4: in the guard variants of gpt-o3 raw mode is entered exactly once,
\* before the first read, and the restore command is issued exactly once,
\* after the last read, however main is left (quit, end of input, read
\* error, panic of a failed flush)
C4_GuardRestoresExactlyOnce ==
    prog \in {"o3_ff", "o3_sr"} =>
        /\ enters <= 1
        /\ restores <= 1
        /\ has_read => enters = 1
        /\ restores = 1 => Ended
        /\ npc \in {"draw", "read", "leave"} => (enters = 1 /\ restores = 0)
        /\ Ended => (enters = 1 /\ restores = 1 /\ term = "cooked")

\* a key was read and the next flush panicked
C4_Witness ==
    /\ prog \in {"o3_ff", "o3_sr"}
    /\ npc = "panicked"
    /\ has_read
    /\ last_read = <<>>
    /\ restores = 1

PlainRestoreProgs == {"son4_ms", "op4_ms", "op4_mm"}

\* C5: in the variants that restore by a plain call after the loop, once raw
\* mode has been entered the restore call has run whenever main has ended
C5_PlainRestoreOnEveryExit ==
    (prog \in PlainRestoreProgs /\ enabled /\ Ended) => restores = 1

\* C6: in the gpt-5 variants, once stdin has failed or reached end of input
\* the loop eventually ends and the terminal mode is restored
C6_InputEndTerminates ==
    [](( prog \in G5Progs /\ enabled /\ stdin # "open")
         => <>(Ended /\ term = "cooked"))

\* number of keys in a byte sequence: ESC [ x is one key, any other byte is
\* a key by itself
RECURSIVE KeyCount(_)
KeyCount(bytes) ==
    IF bytes = <<>> THEN 0
    ELSE IF Len(bytes) >= 3 /\ bytes[1] = "ESC" /\ bytes[2] = "["
    THEN 1 + KeyCount(SubSeq(bytes, 4, Len(bytes)))
    ELSE 1 + KeyCount(Tail(bytes))

Buf3Progs == {"op41_sr", "op4_ff", "o3_sr"}

\* C7: in the variants reading into a 3-byte buffer every key of a read is
\* decoded into one command, however many bytes the read returned
C7_EveryKeyDecoded ==
    (prog \in Buf3Progs /\ has_read) => Len(last_cmds) = KeyCount(last_read)

\* C8: in gpt-5 search_replace the Reset key makes cfg equal to the
\* configuration parse_args returned at start
C8_ResetRestoresParsed ==
    (prog = "g5_sr" /\ last_cmds = <<"Reset">>) => cfg = initial_cfg

\* C9: in claude-opus-4.1 morph_multi the Reset key makes cfg equal to
\* initial_cfg, and initial_cfg is never modified
C9_ResetRestoresInitial ==
    [][prog = "op41_mm" =>
         /\ initial_cfg' = initial_cfg
         /\ last_cmds' = <<"Reset">> => cfg' = initial_cfg]_vars

\* Reset was pressed on a view that a key had changed, started from a
\* command line with overrides
C9_Witness ==
    /\ prog = "op41_mm"
    /\ last_cmds = <<"Reset">>
    /\ initial_cfg # ConfigDefault
    /\ shown # <<initial_cfg>>
    /\ cfg = initial_cfg

Esc2Progs == {"o3_ff", "g5_sr", "son4_mm"}

\* C10: in the variants reading two bytes after ESC, ESC followed by a byte
\* other than '[' consumes only those two bytes
C10_EscConsumesTwoBytes ==
    (/\ prog \in Esc2Progs
     /\ Len(last_read) >= 2
     /\ last_read[1] = "ESC"
     /\ last_read[2] # "[") => Len(last_read) = 2

\* C11: in claude-sonnet-4 search_replace, ESC followed by a byte other than
\* '[', and ESC '[' followed by a byte outside A/B/C/D, leave cfg unchanged
\* and the loop goes on with another render
C11_MalformedEscapeIsNoop ==
    (/\ prog = "son4_sr"
     /\ Len(last_read) >= 2
     /\ last_read[1] = "ESC"
     /\ \/ last_read[2] # "["
        \/ Len(last_read) = 3 /\ last_read[3] \notin {"A", "B", "C", "D"})
    => (npc = "draw" /\ shown = <<cfg>>)

FallbackProgs == {"o3_ms", "son4_sr", "op41_sr"}

\* C13: when entering raw mode fails, gpt-o3 morph_single, claude-sonnet-4
\* search_replace and claude-opus-4.1 search_replace write exactly one frame,
\* read no input and exit without a crash
C13_RawModeFailureFallsBack ==
    (prog \in FallbackProgs /\ enters = 1 /\ ~enabled) =>
        /\ ~has_read
        /\ npc # "panicked"
        /\ npc = "done" => shown = <<cfg>>

\* C12: in gpt-5 morph_multi a key decoded as Key::Other leaves every field
\* of cfg as it was when the frame on the screen was rendered
C12_OtherKeyLeavesConfig ==
    (prog = "g5_mm" /\ last_cmds = <<"Noop">>) => shown = <<cfg>>

ZoomPairProgs == {"op4_ms", "op41_sr"}

\* C17: in claude-opus-4 morph_single and claude-opus-4.1 search_replace a
\* zoom-in key followed by a zoom-out key, or the reverse, gives back the
\* Config before the pair (here: the initial one, the pair being the first
\* two keys)
C17_ZoomRoundTrip ==
    (/\ prog \in ZoomPairProgs
     /\ nreads = 2
     /\ \/ /\ last_cmds = <<"ZoomOut">>
           /\ shown = <<[initial_cfg EXCEPT !.scale = ZoomIn(prog, @)]>>
        \/ /\ last_cmds = <<"ZoomIn">>
           /\ shown = <<[initial_cfg EXCEPT !.scale = ZoomOut(prog, @)]>>)
    => cfg = initial_cfg

\* C18: in gpt-5 morph_multi every frame rendered after a key event uses
\* scale >= 1e-6
C18_ScaleAtLeastFloor ==
    (prog = "g5_mm" /\ has_read /\ npc = "draw") => FLe(SCALE_FLOOR, cfg.scale)

\* C19: every Config parse_args returns has scale > 0, width > 1, height > 1
C19_ParsedConfigIsValid ==
    prog = "g5_ms" =>
        /\ FLe(1, initial_cfg.scale)
        /\ initial_cfg.width > 1
        /\ initial_cfg.height > 1

\* C20: for every point outside the circle of radius 2 and every bound
\* max_iter >= 1, mandel_escape(0, 0, cx, cy, max_iter) returns 0
C20_OutsidePointEscapesAtZero ==
    (/\ kpc \in {"escaped", "shaded"}
     /\ kin.zx = 0 /\ kin.zy = 0
     /\ FAdd(FMul(kin.cx, kin.cx), FMul(kin.cy, kin.cy)) > 4 * FX
     /\ kin.max_iter >= 1)
    => kout.it = 0

(***************************************************************************)
(* Work division and collection in the multi-threaded renders.             *)
(***************************************************************************)
PartitionProgs == {"g5_par_ff", "o3_par_mm", "op41_par_sr"}

\* C14: for every height and every available parallelism the row sets of the
\* workers are pairwise disjoint and their union is {0, ..., height-1}; the
\* row a running worker is at is a row of its own set.
C14_WorkersPartitionRows ==
    prog \in PartitionProgs =>
        /\ \A t \in Workers : \A u \in Workers :
              t # u => RowsOf(prog, cfg, threads, t) \cap RowsOf(prog, cfg, threads, u) = {}
        /\ UNION {RowsOf(prog, cfg, threads, t) : t \in Workers} = 0..(cfg.height - 1)
        /\ \A t \in Workers :
              (wst[t] \in {"running", "locked"} /\ wy[t] < EndRow(prog, cfg, threads, t))
                  => wy[t] \in RowsOf(prog, cfg, threads, t)

\* C14 witness: a render with several workers and chunks of unequal size has
\* returned
C14_Witness ==
    /\ prog \in PartitionProgs
    /\ rpc = "done"
    /\ threads >= 2
    /\ cfg.height >= 3
    /\ \E t \in Workers : \E u \in Workers :
          /\ RowsOf(prog, cfg, threads, t) # {}
          /\ RowsOf(prog, cfg, threads, u) # {}
          /\ Cardinality(RowsOf(prog, cfg, threads, t)) # Cardinality(RowsOf(prog, cfg, threads, u))

\* C15: render returns the frame only after every spawned worker is over and
\* joined, with nothing left in the channel and every row a worker produced
\* stored in the row buffer.
C15_FrameAfterAllWorkers ==
    (prog \in RenderProgs /\ rpc = "done") =>
        /\ \A t \in Workers : wst[t] \in {"exited", "panicked", "skipped"}
        /\ joined = Len(Handles)
        /\ chan = <<>>
        /\ \A t \in Workers : \A y \in RowsOf(prog, cfg, threads, t) :
              y < wy[t] => lines[y] = WorkerLine(prog, cfg, y)

\* C15 witness: a render has returned although one of several workers stopped
\* after producing a row
C15_Witness ==
    /\ rpc = "done"
    /\ threads >= 2
    /\ \E t \in Workers :
          /\ wst[t] = "panicked"
          /\ wy[t] > FirstRow(prog, cfg, threads, t)
    /\ \E t \in Workers : wst[t] = "exited"

\* C16: in the mutex-based renders every slot rows[y] is written exactly once,
\* by the worker whose range contains y, and the returned frame is the rows by
\* index whatever order the workers took the lock in.
C16_MutexSlotsWrittenOnce ==
    prog \in MutexProgs =>
        /\ \A i \in 1..Len(arrived) : \A j \in 1..Len(arrived) :
              i # j => arrived[i] # arrived[j]
        /\ \A t \in Workers : wst[t] = "locked" =>
              /\ wy[t] \in RowsOf(prog, cfg, threads, t)
              /\ \A u \in Workers : u # t => wy[t] \notin RowsOf(prog, cfg, threads, u)
        /\ rpc = "done" =>
              /\ {arrived[i] : i \in 1..Len(arrived)} = 0..(cfg.height - 1)
              /\ out = FrameByIndex(prog, cfg)

\* C16 witness: a mutex-based render has returned after a later chunk was
\* stored before an earlier one
C16_Witness ==
    /\ prog \in MutexProgs
    /\ rpc = "done"
    /\ \E i \in 1..(Len(arrived) - 1) : arrived[i] > arrived[i + 1]

(***************************************************************************)
(* The escape-time kernel.                                                 *)
(***************************************************************************)
\* |z|^2 <= 4 holds before each of the iterations k+1 .. n, starting from z
RECURSIVE HeldBeforeEach(_, _, _, _, _, _)
HeldBeforeEach(zx, zy, cx, cy, k, n) ==
    IF k >= n THEN TRUE
    ELSE /\ FLe(FAdd(FMul(zx, zx), FMul(zy, zy)), 4 * FX)
         /\ HeldBeforeEach(FAdd(FSub(FMul(zx, zx), FMul(zy, zy)), cx),
                           FAdd(FMul(FMul(2 * FX, zx), zy), cy), cx, cy, k + 1, n)

C21_Safe ==
    /\ kpc = "loop" => kz.i \in 0..kin.max_iter
    /\ kpc \in {"escaped", "shaded"} =>
          /\ kout.it \in 0..kin.max_iter
          /\ kz # <<>> => kout.it = kz.i
          /\ kout.it = kin.max_iter
                <=> HeldBeforeEach(kin.zx, kin.zy, kin.cx, kin.cy, 0, kin.max_iter)

\* every loop iteration adds one to i, which never passes max_iter, and the
\* state a step leads to satisfies C21_Safe
C21_Step ==
    /\ C21_Safe'
    /\ (kpc = "loop" /\ kpc' = "loop") => (kz'.i = kz.i + 1 /\ kz'.i <= kin.max_iter)
    /\ (kpc = "loop" /\ kpc' = "escaped") => kout'.it = kz.i

\* C21: for every point and every max_iter >= 0 the call of mandel_escape
\* loops at most max_iter times (every iteration counts i up by one towards
\* max_iter) and returns the number of iterations performed, in [0, max_iter];
\* the result is max_iter exactly when |z|^2 <= 4 held before each of the
\* max_iter iterations.
C21_EscapeCountBounded == [][C21_Step]_vars

\* C21 witness: a call that looped returned before reaching the bound, after
\* more than one iteration
C21_Witness ==
    /\ kpc = "escaped"
    /\ kz # <<>>
    /\ kout.it > 1
    /\ kout.it < kin.max_iter

\* C22: for c = (0, 0) and every max_iter >= 0, mandel_escape(0, 0, 0, 0,
\* max_iter) returns exactly max_iter
C22_OriginNeverEscapes ==
    (kpc \in {"escaped", "shaded"} /\ kin.zx = 0 /\ kin.zy = 0 /\ kin.cx = 0 /\ kin.cy = 0)
        => kout.it = kin.max_iter

\* C22 witness: the call for the origin has returned with a bound of at least 2
C22_Witness ==
    /\ kpc = "escaped"
    /\ kin.cx = 0
    /\ kin.cy = 0
    /\ kin.max_iter >= 2
    /\ kout.it = kin.max_iter

(***************************************************************************)
(* The glyph mapper and the argument parser.                               *)
(***************************************************************************)
\* the palette a shade call of gpt-5's variants indexes
CallPalette == IF call.in.variant = "g5_ms" THEN PALETTE ELSE palette_chars(call.in.palette)

\* position of glyph g in palette pal, counted from 0
IndexIn(pal, g) == (CHOOSE i \in 1..Len(pal) : pal[i] = g) - 1

\* the outcome of a shade call with the count it replaced by a
ShadeAt(a) ==
    IF call.in.variant = "g5_ms" THEN shade(a, call.in.max_iter)
    ELSE shade_pal(a, call.in.max_iter, CallPalette)

\* C23: for max_iter >= 1 and counts a <= b < max_iter the palette index shade
\* selects for a is at most the one it selects for b, and for every count
\* >= max_iter shade returns the interior symbol: '@' in the fixed-palette
\* variant, the last entry of the chosen palette in palette_switch_full_file.
C23_ShadeMonotonic ==
    (/\ prog = "call" /\ call.pc = "done" /\ call.in.f = "shade"
     /\ call.in.variant \in {"g5_ms", "g5_ps"}
     /\ call.in.max_iter >= 1)
    => /\ call.in.it < call.in.max_iter =>
             \A a \in 0..call.in.it :
                 IndexIn(CallPalette, ShadeAt(a)) <= IndexIn(CallPalette, call.out)
       /\ call.in.it >= call.in.max_iter =>
             call.out = IF call.in.variant = "g5_ms" THEN "@"
                        ELSE CallPalette[Len(CallPalette)]

\* C23 witness: shade was called with a selectable palette for a count below
\* the bound and returned an entry strictly inside the palette
C23_Witness ==
    /\ prog = "call"
    /\ call.pc = "done"
    /\ call.in.f = "shade"
    /\ call.in.variant = "g5_ps"
    /\ call.in.palette = "Numbers"
    /\ call.in.it > 1
    /\ call.in.it < call.in.max_iter
    /\ call.out \in {"4", "5", "6"}

\* C24: in claude-opus-4.1 palette_switch_morph_single, for each selectable
\* palette shade returns the last entry of that palette whenever it >= max_iter
C24_InteriorIsLastEntry ==
    (/\ prog = "call" /\ call.pc = "done" /\ call.in.f = "shade"
     /\ call.in.variant = "op41_ps"
     /\ call.in.it >= call.in.max_iter)
    => call.out = PaletteOf(call.in.palette)[Len(PaletteOf(call.in.palette))]

\* the value argument a leaves unparsed, for the field named field
Unparsable(a, field) ==
    /\ a.k \in (CASE field = "width"    -> {"w", "width"}
                  [] field = "height"   -> {"h", "height"}
                  [] field = "center_x" -> {"cx"}
                  [] field = "center_y" -> {"cy"}
                  [] field = "scale"    -> {"scale", "s"}
                  [] field = "iters"    -> {"iters", "i"})
    /\ ~a.num

\* C29: parse_args never fails, and every numeric field whose argument value
\* cannot be parsed ends at its documented default, whatever other arguments
\* precede or follow it
C29_UnparsableFallsToDefault ==
    (prog = "call" /\ call.pc = "done" /\ call.in.f = "parse_args")
    => \A field \in {"width", "height", "center_x", "center_y", "scale", "iters"} :
          (\E i \in 1..Len(call.in.args) : Unparsable(call.in.args[i], field))
              => call.out[field] = ConfigDefault[field]

(***************************************************************************)
(* Shape of the frame and size of the worker pool.                         *)
(***************************************************************************)
\* s is h rows of w symbols, each row followed by one newline
FrameShape(s, w, h) ==
    /\ Len(s) = h * (w + 1)
    /\ \A k \in 1..Len(s) : (s[k] = NL) <=> (k % (w + 1) = 0)

\* C25: for every width and height parse_args can return, the string render
\* returns is exactly height rows of exactly width symbols, each followed by
\* exactly one newline: in the sequential render, in gpt-5
\* parallel_rendering_morph_single and in claude-opus-4.1
\* parallel_rendering_search_replace.
C25_FrameIsHeightRowsOfWidth ==
    (prog \in {"g5_par_ms", "op41_par_sr"} /\ rpc = "done")
    => /\ FrameShape(render(cfg), cfg.width, cfg.height)
       /\ FrameShape(out, cfg.width, cfg.height)

ChunkedProgs == {"o3_par_mm", "o3_par_ms", "op41_par_sr"}

\* C26: in the chunked renders, for every height >= 1 and every available
\* parallelism n >= 1, the number of worker threads spawned is min(n, height)
C26_ChunkedSpawnsMinOfParAndHeight ==
    (prog \in ChunkedProgs /\ rpc # "spawn" /\ cfg.height >= 1 /\ ap >= 1)
    => Len(Handles) = Min(ap, cfg.height)

\* C27: in every concurrent render, for every height >= 1 and every available
\* parallelism n >= 1 (the fallback constant when the query fails), the number
\* of worker threads spawned is at least 1, at most n and at most height
C27_PoolSizeBounded ==
    (prog \in RenderProgs /\ rpc # "spawn" /\ cfg.height >= 1)
    => /\ Len(Handles) >= 1
       /\ Len(Handles) <= ParallelismOr(ap, ParFallback(prog))
       /\ Len(Handles) <= cfg.height

\* C27 witness: a render has returned with several workers, fewer than the
\* available parallelism
C27_Witness ==
    /\ prog \in RenderProgs
    /\ rpc = "done"
    /\ cfg.height >= 2
    /\ Len(Handles) >= 2
    /\ Len(Handles) < ap

(***************************************************************************)
(* Terminal flags after the interactive loop.                              *)
(***************************************************************************)
\* C28: in claude-opus-4.1 interactive_zooming_morph_multi and claude-sonnet-4
\* interactive_zooming_morph_single, when the loop ends by the quit key the
\* terminal's canonical-mode and echo settings equal the settings it had
\* before raw mode was entered, for every initial setting of those flags
C28_QuitRestoresOriginalFlags ==
    (prog \in {"op41_mm", "son4_ms"} /\ npc = "done" /\ last_cmds = <<"Quit">>)
    => tty.now = tty.orig

(***************************************************************************)
(* Termination of the channel-based renders.                               *)
(***************************************************************************)
\* C30: in the channel-based renders, under fair scheduling and with no worker
\* fault, render returns for every height >= 0 and every worker count: the
\* receive loop ends once all workers have sent their rows.
C30_ChannelRenderTerminates == <>(rpc = "done")

\* C30 witness: a channel-based render has returned after receiving rows from
\* several workers, or with a loop iteration skipped, or with no row at all
C30_Witness ==
    /\ prog \in FairChannelProgs
    /\ rpc = "done"
    /\ \/ Len(Handles) >= 2 /\ Len(arrived) = cfg.height /\ cfg.height >= 2
       \/ \E t \in Workers : wst[t] = "skipped"
       \/ cfg.height = 0

\* C31: whenever an interactive program waits for input, the frame on the
\* screen was rendered from the current Config, also where the redraw is
\* conditional (op4_sr, g5_sr)
C31_FrameCurrentWhenWaiting ==
    (prog \in NavProgs /\ npc = "read") => shown = <<cfg>>

\* op4_sr waits again after a redraw and an ignored byte
C31_Witness ==
    /\ prog = "op4_sr"
    /\ npc = "read"
    /\ last_read # <<>>
    /\ last_cmds = <<>>
    /\ cfg # initial_cfg
    /\ shown = <<cfg>>

\* programs that fetch an arrow sequence with read() calls on small buffers
SplitReadProgs == {"son4_ms", "op4_mm", "op4_sr"}

\* C32: the arrow sequence ESC [ A/B/C/D is decoded as one event however its
\* bytes are split across reads: while the stream is open no run of the
\* handler ends having consumed only the first or the first two bytes of it
C32_ArrowSurvivesSplitReads ==
    (prog \in SplitReadProgs /\ has_read /\ stdin = "open")
    => last_read \notin {<<"ESC">>, <<"ESC", "[">>}

\* every content the buffer of op4_sr can have before a read
StaleBuffers == [1..3 -> {"q", "+", "ESC", "[", "A", NUL}]

\* C38: in op4_sr the bytes left in the buffer by an earlier read never
\* influence a decode: the command of a read is the same for every earlier
\* content of the buffer, it depends on the delivered bytes alone
C38_StaleBytesNeverDecoded ==
    (prog = "op4_sr" /\ last_read # <<>>)
    => \A stale \in StaleBuffers :
          LET cmd == Decode_op4_sr(ReadInto(stale, last_read), Len(last_read))
          IN  last_cmds = IF cmd = "None" THEN <<>> ELSE <<cmd>>

\* a lone ESC was read while the buffer still held "[" and "A" of an earlier
\* arrow sequence, and nothing was decoded
C38_Witness ==
    /\ prog = "op4_sr"
    /\ last_read = <<"ESC">>
    /\ buffer = <<"ESC", "[", "A">>
    /\ last_cmds = <<>>
    /\ cfg.center_y # initial_cfg.center_y

\* C33: in the renders that join with unwrap(), a panic of any worker is
\* propagated: render returns no frame once a worker has panicked
C33_WorkerPanicPropagates ==
    (prog \in {"op41_par_sr", "o3_par_ms"} /\ \E t \in Workers : wst[t] = "panicked")
    => (rpc # "done" /\ out = <<>>)

\* join().unwrap() has panicked in render on the handle of a worker that
\* panicked, after another handle was joined
C33_Witness ==
    /\ prog \in {"op41_par_sr", "o3_par_ms"}
    /\ rpc = "panicked"
    /\ joined >= 1
    /\ wst[Handles[joined + 1]] = "panicked"
    /\ ~poisoned

\* the threads holding the rows lock
Holders == {t \in Workers : wst[t] = "locked"}

\* at most one thread holds the lock; a holder has a row to store and nothing
\* to wait for; render has the rows only after every handle is joined and
\* every worker is over
C34_LockSafe ==
    /\ Cardinality(Holders) <= 1
    /\ \A t \in Holders : wy[t] < EndRow(prog, cfg, threads, t)
    /\ rpc = "done" => (joined = Len(Handles) /\ \A t \in Workers : Finished(t))

\* C34: the mutex-based renders do not deadlock: at most one thread holds the
\* rows lock, no thread waits while holding it, render takes the rows only
\* after all workers are joined, and under fair scheduling render returns for
\* every height and worker count
C34_MutexRenderTerminates == [](C34_LockSafe) /\ <>(rpc = "done")

\* a mutex-based render has returned all rows after a later worker took the
\* lock before the first one
C34_Witness ==
    /\ prog \in MutexProgs
    /\ rpc = "done"
    /\ Len(Handles) >= 2
    /\ Len(arrived) = cfg.height
    /\ arrived[1] # 0

\* one pass of the loop of g5_ms or o3_ff, seen by the bytes it consumed
C35_Step ==
    (prog \in {"g5_ms", "o3_ff"} /\ npc = "read")
    => /\ cfg'.width = cfg.width /\ cfg'.height = cfg.height /\ cfg'.iters = cfg.iters
       /\ last_read' \in {<<"+">>, <<"-">>}
             => cfg' = [cfg EXCEPT !.scale = cfg'.scale]
       /\ last_read' \in {<<"ESC", "[", "C">>, <<"ESC", "[", "D">>}
             => cfg' = [cfg EXCEPT !.center_x = cfg'.center_x]
       /\ last_read' \in {<<"ESC", "[", "A">>, <<"ESC", "[", "B">>}
             => cfg' = [cfg EXCEPT !.center_y = cfg'.center_y]

\* C35: in g5_ms and o3_ff each command changes its own field only: a zoom
\* key changes scale alone, left and right change center_x alone, up and down
\* change center_y alone, and no key changes width, height or iters
C35_CommandChangesOwnFieldOnly == [][C35_Step]_vars

\* the right arrow has moved center_x after a zoom changed scale, center_y
\* being as parsed
C35_Witness ==
    /\ prog \in {"g5_ms", "o3_ff"}
    /\ last_read = <<"ESC", "[", "C">>
    /\ cfg.scale # initial_cfg.scale
    /\ cfg.center_x # initial_cfg.center_x
    /\ cfg.center_y = initial_cfg.center_y

\* C36: o3_ff and o3_mm do not clamp scale; started with a scale above 0 they
\* keep it above 0 after every key sequence, every zoom multiplying or
\* dividing by a positive constant
C36_ScaleStaysPositive ==
    (prog \in {"o3_ff", "o3_mm"} /\ initial_cfg.scale > 0) => cfg.scale > 0

\* scale was made smaller by two zoom-in keys and is still above 0
C36_Witness ==
    /\ prog \in {"o3_ff", "o3_mm"}
    /\ nreads >= 2
    /\ last_read = <<"+">>
    /\ cfg.scale > 0
    /\ 2 * cfg.scale < initial_cfg.scale + cfg.scale \div 2

\* the palette a shade call of g5_ms or of a claude-sonnet-4 variant indexes
C37_Palette ==
    IF call.in.variant = "g5_ms" THEN PALETTE
    ELSE Glyphs_son4(call.in.variant, call.in.palette)

\* the index round(it / max_iter * (len - 1)) of that call
C37_Index ==
    ShadeIdx(call.in.it, call.in.max_iter,
             IF call.in.variant = "g5_ms" THEN Len(PALETTE)
             ELSE LenUsed_son4(call.in.variant, call.in.palette))

\* C37: for max_iter >= 1, it < max_iter and every palette the index shade
\* computes lies in [0, len - 1] of the palette it indexes: shade returns the
\* entry at that index and never indexes out of range
C37_IndexInRange ==
    (/\ prog = "call" /\ call.pc = "done" /\ call.in.f = "shade"
     /\ call.in.variant \in {"g5_ms", "son4_pmm", "son4_pms"}
     /\ call.in.max_iter >= 1 /\ call.in.it < call.in.max_iter)
    => /\ C37_Index \in 0..(Len(C37_Palette) - 1)
       /\ call.out = C37_Palette[C37_Index + 1]

\* shade has returned the last entry of an 11-entry palette for a count just
\* below the bound
C37_Witness ==
    /\ prog = "call" /\ call.pc = "done" /\ call.in.f = "shade"
    /\ call.in.variant \in {"son4_pmm", "son4_pms"}
    /\ Len(C37_Palette) = 11
    /\ call.in.it < call.in.max_iter
    /\ C37_Index = 10
    /\ call.out \in {"9", "new_moon_face"}

\* the colour index and the glyph index of the pair an add_color shade call
\* returned
C39_ColourIndex == IndexIn(COLORS, call.out[1])

C39_GlyphIndex == IndexIn(chars, call.out[2])

\* C39: in add_color_search_replace shade returns (COLORS[0], '#') exactly
\* when it >= max_iter; for it < max_iter the colour index lies in [1, 9], is
\* non-decreasing in it, and the glyph index is the colour index minus 1
C39_ColourShade ==
    (/\ prog = "call" /\ call.pc = "done" /\ call.in.f = "shade"
     /\ call.in.variant = "op41_color")
    => /\ (call.out = <<COLORS[1], "#">>) <=> (call.in.it >= call.in.max_iter)
       /\ call.in.it < call.in.max_iter =>
             /\ C39_ColourIndex \in 1..9
             /\ C39_GlyphIndex = C39_ColourIndex - 1
             /\ \A a \in 0..call.in.it :
                   IndexIn(COLORS, shade_color(a, call.in.max_iter)[1]) <= C39_ColourIndex

\* shade has returned a colour strictly inside the range for an escaped point,
\* and the first colour after black for the count 0
C39_Witness ==
    /\ prog = "call" /\ call.pc = "done" /\ call.in.f = "shade"
    /\ call.in.variant = "op41_color"
    /\ call.in.it < call.in.max_iter
    /\ C39_ColourIndex = 5
    /\ C39_GlyphIndex = 4
    /\ shade_color(0, call.in.max_iter) = <<COLORS[2], chars[1]>>

====
